---- MODULE Spec2Model ----
(***************************************************************************)
(* Web-Automation-Test-Framework: the fixture layer of conftest.py (the    *)
(* Playwright session, the browser, one context and one page per test, the *)
(* page-object fixtures, the failure screenshot and the trace), the        *)
(* credential lookup of config/settings.py and utils/test_data.py, and the *)
(* page-object actions of pages/*.py over the driver.                      *)
(***************************************************************************)
EXTENDS Integers, Sequences, FiniteSets, TLC

\* ------------------------------------------------------------------ bounds
\* Number of test items pytest collects for the run.
NumTests == 2
\* Number of values the generator may draw from Faker in a run.
MaxDraws == 4
\* Number of products of the catalog the application shows (the demo has 6).
NumProducts == 2
\* Largest index handed to the by-index actions; the smallest is its negative.
MaxIndex == 2

\* ------------------------------------------------------------- state
VARIABLES
    settings,   \* config/settings.py: the process-wide Settings instance
    pc,         \* pytest runner position: setup / call / teardown / ...
    cur,        \* index of the current test item (1..NumTests), 0 before the first
    pw,         \* playwright_instance fixture: "none" / "started" / "stopped"
    browser,    \* browser fixture's Browser: "none" / "open" / "closed"
    launches,   \* number of browser_type.launch calls of the run
    closes,     \* number of browser.close calls of the run
    handles,    \* driver objects created so far: Contexts and Pages
    cache,      \* pytest's function-scoped fixture cache: context and page
    objs,       \* the page-object fixtures of the current test: wrapped Page
    helper,     \* composed fixture reached: "none"/"logged_in_user"/"cart_with_items"
    rep,        \* item.rep_setup / rep_call / rep_teardown of the current item
    calls,      \* artifact calls issued to the driver for the current test
    warnings,   \* logger.warning messages of the current test
    tdError,    \* a finalizer of the current test raised
    finished,   \* per finished test: the reports the runner recorded for it
    lookup,     \* the last Settings.get_user_credentials call and what it gave
    produced,   \* the UserCredentials the generator returned last, and by which call
    fakerN,     \* number of values drawn from the seeded Faker so far
    app,        \* the application in the test's Page: screen, cart, form, error
    last,       \* the last page-object method call: what it did and how it ended
    fs,         \* the artifact files written to the output directories, in order
    par,        \* tests run side by side by parallel workers: where each one is
    loggers,    \* the logging module's loggers and the TestLogger._loggers dict
    runs        \* runs of the suite side by side: each one's Faker and generated data

fixtureVars == <<pc, cur, pw, browser, launches, closes, handles, cache, objs,
                 helper, rep, calls, warnings, tdError, finished>>

credVars == <<lookup, produced, fakerN>>

actionVars == <<app, last>>

processVars == <<fs, par, loggers, runs>>

\* the state outside each layer, which its steps leave alone
nonFixtureVars == <<credVars, actionVars, processVars>>
nonCredVars == <<fixtureVars, actionVars, processVars>>
nonActionVars == <<fixtureVars, credVars, processVars>>
nonProcessVars == <<fixtureVars, credVars, actionVars>>

Tests == 1..NumTests

\* request.node.name of test item t
NodeName(t) == "test_" \o ToString(t)

PageObjectNames == {"login_page", "inventory_page", "cart_page",
                    "checkout_step_one_page", "checkout_step_two_page",
                    "checkout_complete_page"}

\* ---------------------------------------------------------- Settings
UserTypes == {"standard", "locked", "problem", "performance", "error", "visual"}

\* Settings' defaults (the fields the fixtures and the lookup read)
DefaultSettings ==
    [ standard_user         |-> "standard_user",
      locked_user           |-> "locked_out_user",
      problem_user          |-> "problem_user",
      performance_user      |-> "performance_glitch_user",
      error_user            |-> "error_user",
      visual_user           |-> "visual_user",
      default_password      |-> "secret_sauce",
      screenshot_on_failure |-> TRUE,
      trace_on_failure      |-> TRUE,
      screenshot_dir        |-> "screenshots",
      timeout               |-> 30000 ]

\* settings.screenshots_path, relative to project_root
screenshots_path(s) == s.screenshot_dir

\* the user_map dict of Settings.get_user_credentials
user_map(s) ==
    [ standard    |-> s.standard_user,
      locked      |-> s.locked_user,
      problem     |-> s.problem_user,
      performance |-> s.performance_user,
      error       |-> s.error_user,
      visual      |-> s.visual_user ]

\* user_map[user_type]: a KeyError for a key the dict does not have
Settings_get_user_credentials_subscript(s, user_type) ==
    IF user_type \in DOMAIN user_map(s)
    THEN [username |-> user_map(s)[user_type], password |-> s.default_password,
          raised |-> "none"]
    ELSE [username |-> "", password |-> "", raised |-> "KeyError"]

\* Settings.get_user_credentials: user_map.get(user_type, self.standard_user)
Settings_get_user_credentials(s, user_type) ==
    [username |-> IF user_type \in DOMAIN user_map(s)
                  THEN user_map(s)[user_type]
                  ELSE s.standard_user,
     password |-> s.default_password,
     raised   |-> "none"]

\* ------------------------------------------------- utils/test_data.py
\* Faker.seed(42)
FakerSeed == 42

\* the n-th value the seeded Faker returns, for a provider (email, password)
FakerDraw(provider, n) ==
    provider \o "#" \o ToString(FakerSeed) \o "#" \o ToString(n)

UserCredentials(username, password, user_type) ==
    [username |-> username, password |-> password, user_type |-> user_type]

\* a generator that stores the looked-up identifier instead of the argument
TestDataGenerator_get_user_credentials_normalised(s, user_type) ==
    LET c == Settings_get_user_credentials(s, user_type)
    IN  UserCredentials(c.username, c.password,
                        IF user_type \in DOMAIN user_map(s) THEN user_type
                        ELSE "standard")

\* TestDataGenerator.get_user_credentials
TestDataGenerator_get_user_credentials(s, user_type) ==
    LET c == Settings_get_user_credentials(s, user_type)
    IN  UserCredentials(c.username, c.password, user_type)

\* TestDataGenerator.get_all_user_types
get_all_user_types == <<"standard", "locked", "problem", "performance", "error", "visual">>

\* TestDataGenerator.generate_invalid_credentials, n values drawn before it
generate_invalid_credentials(n) ==
    << UserCredentials("", "", "empty"),
       UserCredentials("invalid_user", "wrong_pass", "invalid"),
       UserCredentials("standard_user", "wrong_password", "wrong_password"),
       UserCredentials("", "secret_sauce", "empty_username"),
       UserCredentials("standard_user", "", "empty_password"),
       UserCredentials(FakerDraw("email", n + 1), FakerDraw("password", n + 2),
                       "random") >>

\* the strings handed to the lookups: the six identifiers and others
UserTypeInputs == UserTypes \cup {"admin", "", "Standard", "locked_out_user"}

NoLookup == [user_type |-> "", username |-> "", password |-> "", raised |-> "unset"]
NoProduced == [by |-> "none", asked |-> "", records |-> <<>>]

CredInit ==
    /\ lookup = NoLookup
    /\ produced = NoProduced
    /\ fakerN = 0

\* a fresh process: no artifact written, no logger created, no test run by
\* a parallel worker
NoLoggers ==
    [created |-> {}, handlers |-> <<>>, registry |-> <<>>,
     returned |-> [name |-> "", logger |-> "", raised |-> "unset"]]

ProcessInit ==
    /\ fs = <<>>
    /\ par = <<>>
    /\ loggers = NoLoggers
    /\ runs = <<>>

\* ------------------------------------------------------------ driver
NoHandle == 0

\* browser.new_context(...): a fresh open Context owned by the Browser
new_context(hs, t) ==
    Append(hs, [kind |-> "context", state |-> "open", parent |-> NoHandle,
                test |-> t, users |-> {}])

\* context.new_page(): a fresh open Page owned by Context c
new_page(hs, c, t) ==
    Append(hs, [kind |-> "page", state |-> "open", parent |-> c,
                test |-> t, users |-> {}])

\* page.close() / context.close(): the driver closes the object and what it owns
close(hs, h) ==
    [i \in DOMAIN hs |->
        IF i = h \/ hs[i].parent = h THEN [hs[i] EXCEPT !.state = "closed"]
        ELSE hs[i]]

\* browser.close(): the driver closes every Context and Page of the Browser
browser_close(hs) == [i \in DOMAIN hs |-> [hs[i] EXCEPT !.state = "closed"]]

IsOpen(hs, h) == h \in DOMAIN hs /\ hs[h].state = "open"

\* ------------------------------------------- the application under test
Products == 1..NumProducts

\* the number of products the demo catalog lists
CatalogSize == 6

\* the products the inventory page of application state a lists
ProductsOf(a) == 1..a.products

\* the names the catalog shows, in the order it shows them
ProductName ==
    << <<"S", "a", "u", "c", "e", " ", "L", "a", "b", "s", " ", "B", "a", "c", "k", "p", "a", "c", "k">>,
       <<"S", "a", "u", "c", "e", " ", "L", "a", "b", "s", " ", "B", "i", "k", "e", " ", "L", "i", "g", "h", "t">>,
       <<"S", "a", "u", "c", "e", " ", "L", "a", "b", "s", " ", "B", "o", "l", "t", " ", "T", "-", "S", "h", "i", "r", "t">>,
       <<"S", "a", "u", "c", "e", " ", "L", "a", "b", "s", " ", "F", "l", "e", "e", "c", "e", " ", "J", "a", "c", "k", "e", "t">>,
       <<"S", "a", "u", "c", "e", " ", "L", "a", "b", "s", " ", "O", "n", "e", "s", "i", "e">>,
       <<"T", "e", "s", "t", ".", "a", "l", "l", "T", "h", "e", "T", "h", "i", "n", "g", "s", "(", ")", " ", "T", "-", "S", "h", "i", "r", "t", " ", "(", "R", "e", "d", ")">> >>

\* the data-test suffix the application gives the buttons of each product
ProductButtonId ==
    << <<"s", "a", "u", "c", "e", "-", "l", "a", "b", "s", "-", "b", "a", "c", "k", "p", "a", "c", "k">>,
       <<"s", "a", "u", "c", "e", "-", "l", "a", "b", "s", "-", "b", "i", "k", "e", "-", "l", "i", "g", "h", "t">>,
       <<"s", "a", "u", "c", "e", "-", "l", "a", "b", "s", "-", "b", "o", "l", "t", "-", "t", "-", "s", "h", "i", "r", "t">>,
       <<"s", "a", "u", "c", "e", "-", "l", "a", "b", "s", "-", "f", "l", "e", "e", "c", "e", "-", "j", "a", "c", "k", "e", "t">>,
       <<"s", "a", "u", "c", "e", "-", "l", "a", "b", "s", "-", "o", "n", "e", "s", "i", "e">>,
       <<"t", "e", "s", "t", ".", "a", "l", "l", "t", "h", "e", "t", "h", "i", "n", "g", "s", "(", ")", "-", "t", "-", "s", "h", "i", "r", "t", "-", "(", "r", "e", "d", ")">> >>

\* str.lower() on one character
LowerOf ==
    [ A |-> "a", B |-> "b", C |-> "c", D |-> "d", E |-> "e", F |-> "f", G
      |-> "g", H |-> "h", I |-> "i", J |-> "j", K |-> "k", L |-> "l", M |->
      "m", N |-> "n", O |-> "o", P |-> "p", Q |-> "q", R |-> "r", S |-> "s",
      T |-> "t", U |-> "u", V |-> "v", W |-> "w", X |-> "x", Y |-> "y", Z
      |-> "z" ]

Lower(c) == IF c \in DOMAIN LowerOf THEN LowerOf[c] ELSE c

\* product_name.lower().replace(" ", "-")
Slug(name) ==
    [i \in 1..Len(name) |-> IF Lower(name[i]) = " " THEN "-" ELSE Lower(name[i])]

\* f'[data-test="{button_id}"]' with button_id = f'{prefix}{slug}'
DataTest(prefix, slug) == <<"[data-test=\"", prefix>> \o slug \o <<"\"]">>

\* the locator tables of the page objects
USERNAME_INPUT == <<"[data-test=\"username\"]">>
PASSWORD_INPUT == <<"[data-test=\"password\"]">>
LOGIN_BUTTON == <<"[data-test=\"login-button\"]">>
SHOPPING_CART_LINK == <<".shopping_cart_link">>
ADD_TO_CART_BUTTON == <<"[data-test^=\"add-to-cart\"]">>
REMOVE_BUTTON == <<"[data-test^=\"remove\"]">>
CONTINUE_SHOPPING_BUTTON == <<"[data-test=\"continue-shopping\"]">>
CHECKOUT_BUTTON == <<"[data-test=\"checkout\"]">>
FIRST_NAME_INPUT == <<"[data-test=\"firstName\"]">>
LAST_NAME_INPUT == <<"[data-test=\"lastName\"]">>
POSTAL_CODE_INPUT == <<"[data-test=\"postalCode\"]">>
CONTINUE_BUTTON == <<"[data-test=\"continue\"]">>
CANCEL_BUTTON == <<"[data-test=\"cancel\"]">>
FINISH_BUTTON == <<"[data-test=\"finish\"]">>
BACK_HOME_BUTTON == <<"[data-test=\"back-to-products\"]">>
SHOPPING_CART_BADGE == <<".shopping_cart_badge">>
ERROR_MESSAGE == <<"[data-test=\"error\"]">>
INVENTORY_CONTAINER == <<".inventory_container">>
SUMMARY_SUBTOTAL == <<".summary_subtotal_label">>
SUMMARY_TAX == <<".summary_tax_label">>
SUMMARY_TOTAL == <<".summary_total_label">>
INVENTORY_ITEM == <<".inventory_item">>
INVENTORY_ITEM_NAME == <<".inventory_item_name">>
INVENTORY_ITEM_PRICE == <<".inventory_item_price">>
PRODUCT_SORT_CONTAINER == <<".product_sort_container">>
CART_ITEM == <<".cart_item">>
CART_ITEM_NAME == <<".inventory_item_name">>
CART_ITEM_PRICE == <<".inventory_item_price">>

\* the sort options of the inventory page
SORT_NAME_ASC == "az"
SORT_NAME_DESC == "za"
SORT_PRICE_ASC == "lohi"
SORT_PRICE_DESC == "hilo"
SortOptions == {SORT_NAME_ASC, SORT_NAME_DESC, SORT_PRICE_ASC, SORT_PRICE_DESC}

\* a catalog whose products all cost the same, in cents, for the tests in
\* which no price is read
FlatPrices == [p \in 1..CatalogSize |-> 999]

\* the selectors that match the add and the remove button of each product
AddButtons ==
    [p \in DOMAIN ProductButtonId |-> DataTest("add-to-cart-", ProductButtonId[p])]
RemoveButtons ==
    [p \in DOMAIN ProductButtonId |-> DataTest("remove-", ProductButtonId[p])]

AddButton(p) == AddButtons[p]
RemoveButton(p) == RemoveButtons[p]

InCart(a, p) == \E k \in DOMAIN a.cart : a.cart[k] = p

EmptyForm == [username |-> "", password |-> "", first |-> "", last |-> "", postal |-> ""]

\* the controls of the current screen that a selector for one element matches
Controls(a) ==
    CASE a.screen = "login" -> {USERNAME_INPUT, PASSWORD_INPUT, LOGIN_BUTTON}
      [] a.screen = "inventory" ->
            {SHOPPING_CART_LINK}
            \cup {AddButton(p) : p \in {q \in ProductsOf(a) : ~InCart(a, q)}}
            \cup {RemoveButton(p) : p \in {q \in ProductsOf(a) : InCart(a, q)}}
      [] a.screen = "cart" ->
            {SHOPPING_CART_LINK, CONTINUE_SHOPPING_BUTTON, CHECKOUT_BUTTON}
            \cup {RemoveButton(p) : p \in {q \in ProductsOf(a) : InCart(a, q)}}
      [] a.screen = "step_one" ->
            {FIRST_NAME_INPUT, LAST_NAME_INPUT, POSTAL_CODE_INPUT,
             CONTINUE_BUTTON, CANCEL_BUTTON}
      [] a.screen = "step_two" -> {FINISH_BUTTON, CANCEL_BUTTON}
      [] a.screen = "complete" -> {BACK_HOME_BUTTON}
      [] a.screen = "blank" -> {}

\* the elements of the current screen that a selector for one element
\* matches: its controls, the cart badge while the cart holds something, the
\* error banner while an error is shown, the inventory container
Dom(a) ==
    Controls(a)
    \cup (IF a.screen # "login" /\ a.cart # <<>> THEN {SHOPPING_CART_BADGE} ELSE {})
    \cup (IF a.error # "" THEN {ERROR_MESSAGE} ELSE {})
    \cup (IF a.screen = "inventory" THEN {INVENTORY_CONTAINER, PRODUCT_SORT_CONTAINER}
          ELSE {})
    \cup (IF a.screen = "step_two"
          THEN {SUMMARY_SUBTOTAL, SUMMARY_TAX, SUMMARY_TOTAL} ELSE {})

RECURSIVE SelectSeq2(_, _, _)
\* the products of sequence q that satisfy in-cart = want, in the order of q
SelectSeq2(a, q, want) ==
    IF q = <<>> THEN <<>>
    ELSE (IF InCart(a, Head(q)) = want THEN <<Head(q)>> ELSE <<>>)
         \o SelectSeq2(a, Tail(q), want)

\* product q is listed before product p under the selected sort option:
\* the catalog numbers its products in the order of their names
Before(a, q, p) ==
    CASE a.sort = SORT_NAME_ASC -> q < p
      [] a.sort = SORT_NAME_DESC -> q > p
      [] a.sort = SORT_PRICE_ASC ->
            a.prices[q] < a.prices[p] \/ (a.prices[q] = a.prices[p] /\ q < p)
      [] a.sort = SORT_PRICE_DESC ->
            a.prices[q] > a.prices[p] \/ (a.prices[q] = a.prices[p] /\ q < p)

\* the inventory items in the order the page lists them
Catalog(a) ==
    IF a.sort = SORT_NAME_ASC THEN [i \in 1..a.products |-> i]
    ELSE [i \in 1..a.products |->
             CHOOSE p \in ProductsOf(a) :
                 Cardinality({q \in ProductsOf(a) : Before(a, q, p)}) = i - 1]

\* page.locator(sel).all() for the two prefix selectors: the matching
\* buttons in document order
All(a, sel) ==
    IF sel = ADD_TO_CART_BUTTON /\ a.screen = "inventory"
    THEN [k \in DOMAIN SelectSeq2(a, Catalog(a), FALSE) |->
             AddButton(SelectSeq2(a, Catalog(a), FALSE)[k])]
    ELSE IF sel = REMOVE_BUTTON /\ a.screen = "inventory"
    THEN [k \in DOMAIN SelectSeq2(a, Catalog(a), TRUE) |->
             RemoveButton(SelectSeq2(a, Catalog(a), TRUE)[k])]
    ELSE IF sel = REMOVE_BUTTON /\ a.screen = "cart"
    THEN [k \in DOMAIN a.cart |-> RemoveButton(a.cart[k])]
    ELSE <<>>

\* the usernames the application lets in with the shared password
AcceptedUsers ==
    {DefaultSettings.standard_user, DefaultSettings.problem_user,
     DefaultSettings.performance_user, DefaultSettings.error_user,
     DefaultSettings.visual_user}

Remove(q, p) == SelectSeq(q, LAMBDA x : x # p)

\* where Cancel on the overview step leads: back to the cart, as for step
\* one (no test exercises it)
StepTwoCancelTarget == "cart"

\* what the application does when the element a selector matches is clicked
AppClick(a, sel) ==
    IF sel = LOGIN_BUTTON THEN
        IF a.form.username = "" THEN [a EXCEPT !.error = "Username is required"]
        ELSE IF a.form.password = "" THEN [a EXCEPT !.error = "Password is required"]
        ELSE IF a.form.username = DefaultSettings.locked_user
                /\ a.form.password = DefaultSettings.default_password
             THEN [a EXCEPT !.error = "Sorry, this user has been locked out."]
        ELSE IF a.form.username \in AcceptedUsers
                /\ a.form.password = DefaultSettings.default_password
             THEN [a EXCEPT !.screen = "inventory", !.form = EmptyForm, !.error = ""]
        ELSE [a EXCEPT !.error = "Username and password do not match"]
    ELSE IF \E p \in ProductsOf(a) : sel = AddButton(p) THEN
        [a EXCEPT !.cart = Append(@, CHOOSE p \in ProductsOf(a) : sel = AddButton(p))]
    ELSE IF \E p \in ProductsOf(a) : sel = RemoveButton(p) THEN
        [a EXCEPT !.cart = Remove(@, CHOOSE p \in ProductsOf(a) : sel = RemoveButton(p))]
    ELSE IF sel = SHOPPING_CART_LINK THEN [a EXCEPT !.screen = "cart"]
    ELSE IF sel = CONTINUE_SHOPPING_BUTTON THEN [a EXCEPT !.screen = "inventory"]
    ELSE IF sel = CHECKOUT_BUTTON THEN
        [a EXCEPT !.screen = "step_one", !.form = EmptyForm, !.error = ""]
    ELSE IF sel = CONTINUE_BUTTON THEN
        IF a.form.first = "" THEN [a EXCEPT !.error = "Error: First Name is required"]
        ELSE IF a.form.last = "" THEN [a EXCEPT !.error = "Error: Last Name is required"]
        ELSE IF a.form.postal = "" THEN [a EXCEPT !.error = "Error: Postal Code is required"]
        ELSE [a EXCEPT !.screen = "step_two", !.form = EmptyForm, !.error = ""]
    ELSE IF sel = CANCEL_BUTTON THEN
        [a EXCEPT !.screen = IF a.screen = "step_two" THEN StepTwoCancelTarget ELSE "cart",
                  !.form = EmptyForm, !.error = ""]
    ELSE IF sel = FINISH_BUTTON THEN [a EXCEPT !.screen = "complete", !.cart = <<>>]
    ELSE IF sel = BACK_HOME_BUTTON THEN [a EXCEPT !.screen = "inventory"]
    ELSE a

\* what the application does when an input is filled
AppFill(a, sel, value) ==
    IF sel = USERNAME_INPUT THEN [a EXCEPT !.form.username = value]
    ELSE IF sel = PASSWORD_INPUT THEN [a EXCEPT !.form.password = value]
    ELSE IF sel = FIRST_NAME_INPUT THEN [a EXCEPT !.form.first = value]
    ELSE IF sel = LAST_NAME_INPUT THEN [a EXCEPT !.form.last = value]
    ELSE IF sel = POSTAL_CODE_INPUT THEN [a EXCEPT !.form.postal = value]
    ELSE a

\* settings.base_url and the url each page object names for its screen
BaseUrl ==
    <<"h", "t", "t", "p", "s", ":", "/", "/", "w", "w", "w", ".", "s", "a",
      "u", "c", "e", "d", "e", "m", "o", ".", "c", "o", "m">>

UrlPath ==
    [login |-> <<"/">>,
     inventory |-> 
        <<"/", "i", "n", "v", "e", "n", "t", "o", "r", "y", ".", "h", "t", "m",
          "l">>,
     cart |-> 
        <<"/", "c", "a", "r", "t", ".", "h", "t", "m", "l">>,
     step_one |-> 
        <<"/", "c", "h", "e", "c", "k", "o", "u", "t", "-", "s", "t", "e", "p",
          "-", "o", "n", "e", ".", "h", "t", "m", "l">>,
     step_two |-> 
        <<"/", "c", "h", "e", "c", "k", "o", "u", "t", "-", "s", "t", "e", "p",
          "-", "t", "w", "o", ".", "h", "t", "m", "l">>,
     complete |-> 
        <<"/", "c", "h", "e", "c", "k", "o", "u", "t", "-", "c", "o", "m", "p",
          "l", "e", "t", "e", ".", "h", "t", "m", "l">>]

\* page.url while the application shows a screen
Url(a) == BaseUrl \o UrlPath[a.screen]

\* needle in hay, for Python strings
Contains(needle, hay) ==
    \E i \in 0..(Len(hay) - Len(needle)) : SubSeq(hay, i + 1, i + Len(needle)) = needle

\* ------------------------------------------------ the driver's Page
\* drv is what the browser does within the timeout: "ok", the element gets
\* ready in time if it is there; "slow", it does not.
Ready(a, sel, drv) == sel \in Dom(a) /\ drv = "ok"

\* page.click(selector, timeout=...)
page_click(a, sel, drv) ==
    IF Ready(a, sel, drv) THEN [app |-> AppClick(a, sel), raised |-> "none"]
    ELSE [app |-> a, raised |-> "TimeoutError"]

\* page.fill(selector, value, timeout=...)
page_fill(a, sel, value, drv) ==
    IF Ready(a, sel, drv) THEN [app |-> AppFill(a, sel, value), raised |-> "none"]
    ELSE [app |-> a, raised |-> "TimeoutError"]

\* what the browser does during a wait: "ok", it reports the state of the
\* element in time; "slow", it does not; "error", the driver fails otherwise
WaitDrv == {"ok", "slow", "error"}

\* page.locator(selector).wait_for(state=..., timeout=...)
locator_wait_for(a, sel, state, drv) ==
    IF drv = "error" THEN "Error"
    ELSE IF drv = "ok" /\ (state = "visible") = (sel \in Dom(a)) THEN "none"
    ELSE "TimeoutError"

\* ---------------------------------------------- pages/base_page.py
\* Optional[int]
None == [some |-> FALSE, v |-> 0]
Some(v) == [some |-> TRUE, v |-> v]

\* Python truthiness of an Optional[int]: None and 0 are falsy
Truthy(t) == t.some /\ t.v # 0

\* timeout or self.timeout, with self.timeout = settings.timeout
TimeoutOr(t, s) == IF Truthy(t) THEN t.v ELSE s.timeout

DriverCall(op, sel, value, t, raised) ==
    [op |-> op, selector |-> sel, value |-> value, timeout |-> t, raised |-> raised]

\* a click that catches the driver's error and returns
BasePage_click_swallow(a, s, sel, timeout, drv) ==
    LET r == page_click(a, sel, drv)
    IN  [app |-> r.app, raised |-> "none", ret |-> <<>>,
         calls |-> <<DriverCall("click", sel, "", TimeoutOr(timeout, s), r.raised)>>]

\* BasePage.click
BasePage_click(a, s, sel, timeout, drv) ==
    LET r == page_click(a, sel, drv)
    IN  [app |-> r.app, raised |-> r.raised, ret |-> <<>>,
         calls |-> <<DriverCall("click", sel, "", TimeoutOr(timeout, s), r.raised)>>]

\* BasePage.fill
BasePage_fill(a, s, sel, value, timeout, drv) ==
    LET r == page_fill(a, sel, value, drv)
    IN  [app |-> r.app, raised |-> r.raised, ret |-> <<>>,
         calls |-> <<DriverCall("fill", sel, value, TimeoutOr(timeout, s), r.raised)>>]

RECURSIVE Digits(_)
\* the decimal digits of a natural number, one character each
Digits(n) ==
    IF n < 10 THEN <<ToString(n)>> ELSE Digits(n \div 10) \o <<ToString(n % 10)>>

\* a summary label of the overview step: "Item total: $XX.XX", "Tax: $X.XX",
\* "Total: $XX.XX", for an amount of c cents
AmountText(label, c) ==
    <<label, "$">> \o Digits(c \div 100)
    \o <<".", ToString((c % 100) \div 10), ToString(c % 10)>>

\* what the element a selector matches shows as its text
TextOf(a, sel) ==
    IF sel = SHOPPING_CART_BADGE THEN ToString(Len(a.cart))
    ELSE IF sel = ERROR_MESSAGE THEN a.error
    ELSE IF sel = SUMMARY_SUBTOTAL THEN AmountText("Item total: ", a.summary.subtotal)
    ELSE IF sel = SUMMARY_TAX THEN AmountText("Tax: ", a.summary.tax)
    ELSE IF sel = SUMMARY_TOTAL THEN AmountText("Total: ", a.summary.total)
    ELSE ""

\* the attributes the tests read: the placeholders of the login inputs
AttributeOf(sel, attribute) ==
    IF attribute = "placeholder" /\ sel = USERNAME_INPUT THEN <<"Username">>
    ELSE IF attribute = "placeholder" /\ sel = PASSWORD_INPUT THEN <<"Password">>
    ELSE <<>>

\* a driver call that reads or waits: it fails unless the element is there
\* and the browser answers in time
Reads(a, sel, drv) == IF Ready(a, sel, drv) THEN "none" ELSE "TimeoutError"

\* BasePage.get_text
BasePage_get_text(a, s, sel, timeout, drv) ==
    LET r == Reads(a, sel, drv)
    IN  [app |-> a, raised |-> r,
         ret |-> IF r = "none" THEN <<TextOf(a, sel)>> ELSE <<>>,
         calls |-> <<DriverCall("text_content", sel, "", TimeoutOr(timeout, s), r)>>]

\* BasePage.get_attribute
BasePage_get_attribute(a, s, sel, attribute, timeout, drv) ==
    LET r == Reads(a, sel, drv)
    IN  [app |-> a, raised |-> r,
         ret |-> IF r = "none" THEN <<AttributeOf(sel, attribute)>> ELSE <<>>,
         calls |-> <<DriverCall("get_attribute", sel, attribute, TimeoutOr(timeout, s), r)>>]

\* BasePage.wait_for_selector
BasePage_wait_for_selector(a, s, sel, state, timeout, drv) ==
    LET r == locator_wait_for(a, sel, state, drv)
    IN  [app |-> a, raised |-> r, ret |-> <<>>,
         calls |-> <<DriverCall("wait_for_" \o state, sel, "", TimeoutOr(timeout, s), r)>>]

\* BasePage.wait_for_url: page.wait_for_url(f"**/*{url_pattern}*", timeout=...)
BasePage_wait_for_url(a, s, url_pattern, timeout, drv) ==
    LET r == IF drv = "ok" /\ Contains(url_pattern, Url(a)) THEN "none" ELSE "TimeoutError"
    IN  [app |-> a, raised |-> r, ret |-> <<>>,
         calls |-> <<DriverCall("wait_for_url", url_pattern, "", TimeoutOr(timeout, s), r)>>]

\* BasePage.hover
BasePage_hover(a, s, sel, timeout, drv) ==
    LET r == Reads(a, sel, drv)
    IN  [app |-> a, raised |-> r, ret |-> <<>>,
         calls |-> <<DriverCall("hover", sel, "", TimeoutOr(timeout, s), r)>>]

\* what the application does when an option of a dropdown is selected
AppSelect(a, sel, value) ==
    IF sel = PRODUCT_SORT_CONTAINER THEN [a EXCEPT !.sort = value] ELSE a

\* page.select_option(selector, value): the driver waits for the dropdown
\* and for the option
page_select_option(a, sel, value, drv) ==
    IF Ready(a, sel, drv) /\ value \in SortOptions
    THEN [app |-> AppSelect(a, sel, value), raised |-> "none"]
    ELSE [app |-> a, raised |-> "TimeoutError"]

\* BasePage.select_option
BasePage_select_option(a, s, sel, value, drv) ==
    LET r == page_select_option(a, sel, value, drv)
    IN  [app |-> r.app, raised |-> r.raised, ret |-> <<>>,
         calls |-> <<DriverCall("select_option", sel, value, None, r.raised)>>]

\* the text of a price element: "$XX.XX"
PriceText(c) == Tail(AmountText("", c))

\* the products whose items the current screen lists, in document order:
\* the catalog on the inventory page, the cart on the cart page and on the
\* overview step
Items(a) ==
    IF a.screen = "inventory" THEN Catalog(a)
    ELSE IF a.screen \in {"cart", "step_two"} THEN a.cart
    ELSE <<>>

\* page.locator(selector).all_text_contents()
all_text_contents(a, sel) ==
    IF sel = INVENTORY_ITEM_NAME THEN [k \in DOMAIN Items(a) |-> ProductName[Items(a)[k]]]
    ELSE IF sel = INVENTORY_ITEM_PRICE
    THEN [k \in DOMAIN Items(a) |-> PriceText(a.prices[Items(a)[k]])]
    ELSE <<>>

\* page.locator(selector).count()
locator_count(a, sel) ==
    IF sel = INVENTORY_ITEM /\ a.screen = "inventory" THEN a.products
    ELSE IF sel = CART_ITEM /\ a.screen \in {"cart", "step_two"} THEN Len(a.cart)
    ELSE IF sel \in {INVENTORY_ITEM_NAME, INVENTORY_ITEM_PRICE} THEN Len(Items(a))
    ELSE IF sel \in {ADD_TO_CART_BUTTON, REMOVE_BUTTON} THEN Len(All(a, sel))
    ELSE IF sel \in Dom(a) THEN 1
    ELSE 0

\* BasePage.get_element_count
BasePage_get_element_count(a, sel) ==
    [app |-> a, raised |-> "none", ret |-> <<locator_count(a, sel)>>,
     calls |-> <<DriverCall("count", sel, "", None, "none")>>]

\* BasePage.get_all_texts
BasePage_get_all_texts(a, sel) ==
    [app |-> a, raised |-> "none", ret |-> <<all_text_contents(a, sel)>>,
     calls |-> <<DriverCall("all_text_contents", sel, "", None, "none")>>]

\* a probe that lets the driver's error through
BasePage_is_visible_nocatch(a, s, sel, timeout, drv) ==
    LET r == locator_wait_for(a, sel, "visible", drv)
    IN  [app |-> a, raised |-> r, ret |-> IF r = "none" THEN <<TRUE>> ELSE <<>>,
         calls |-> <<DriverCall("wait_for_visible", sel, "", TimeoutOr(timeout, s), r)>>]

\* BasePage.is_visible: try wait_for(state="visible"), return True; except
\* Exception: return False
BasePage_is_visible(a, s, sel, timeout, drv) ==
    LET r == locator_wait_for(a, sel, "visible", drv)
    IN  [app |-> a, raised |-> "none", ret |-> <<r = "none">>,
         calls |-> <<DriverCall("wait_for_visible", sel, "", TimeoutOr(timeout, s), r)>>]

\* BasePage.is_hidden: the same around wait_for(state="hidden")
BasePage_is_hidden(a, s, sel, timeout, drv) ==
    LET r == locator_wait_for(a, sel, "hidden", drv)
    IN  [app |-> a, raised |-> "none", ret |-> <<r = "none">>,
         calls |-> <<DriverCall("wait_for_hidden", sel, "", TimeoutOr(timeout, s), r)>>]

\* one statement of a page-object method: self.click(sel) or self.fill(sel, value)
Click(sel) == [op |-> "click", selector |-> sel, value |-> ""]
Fill(sel, value) == [op |-> "fill", selector |-> sel, value |-> value]

Statement(a, s, st, drv) ==
    IF st.op = "click" THEN BasePage_click(a, s, st.selector, None, drv)
    ELSE BasePage_fill(a, s, st.selector, st.value, None, drv)

RECURSIVE Run(_, _, _, _)
\* the statements of a method body in order; an exception ends the method
Run(a, s, body, drvs) ==
    IF body = <<>> THEN [app |-> a, raised |-> "none", calls |-> <<>>]
    ELSE LET r == Statement(a, s, Head(body), Head(drvs))
         IN  IF r.raised # "none" THEN r
             ELSE LET rest == Run(r.app, s, Tail(body), Tail(drvs))
                  IN  [app |-> rest.app, raised |-> rest.raised,
                       calls |-> r.calls \o rest.calls]

\* ------------------------------------------------- the page objects
\* LoginPage.login
LoginPage_login(username, password) ==
    <<Fill(USERNAME_INPUT, username), Fill(PASSWORD_INPUT, password), Click(LOGIN_BUTTON)>>

\* InventoryPage.add_product_to_cart_by_name
InventoryPage_add_product_to_cart_by_name(product_name) ==
    <<Click(DataTest("add-to-cart-", Slug(product_name)))>>

\* a remove-by-name that does nothing
InventoryPage_remove_product_from_cart_by_name_noop(product_name) == <<>>

\* InventoryPage.remove_product_from_cart_by_name
InventoryPage_remove_product_from_cart_by_name(product_name) ==
    <<Click(DataTest("remove-", Slug(product_name)))>>

\* InventoryPage.click_shopping_cart
InventoryPage_click_shopping_cart == <<Click(SHOPPING_CART_LINK)>>

\* a remove-by-name that writes the slug with underscores
CartPage_remove_item_by_name_underscore(product_name) ==
    <<Click(DataTest("remove-",
                     [i \in 1..Len(product_name) |->
                         IF product_name[i] = " " THEN "_" ELSE Lower(product_name[i])]))>>

\* CartPage.remove_item_by_name
CartPage_remove_item_by_name(product_name) ==
    <<Click(DataTest("remove-", Slug(product_name)))>>

\* CartPage.continue_shopping
CartPage_continue_shopping == <<Click(CONTINUE_SHOPPING_BUTTON)>>

\* CartPage.proceed_to_checkout
CartPage_proceed_to_checkout == <<Click(CHECKOUT_BUTTON)>>

\* CheckoutStepOnePage.fill_information
CheckoutStepOnePage_fill_information(first_name, last_name, postal_code) ==
    <<Fill(FIRST_NAME_INPUT, first_name), Fill(LAST_NAME_INPUT, last_name),
      Fill(POSTAL_CODE_INPUT, postal_code)>>

\* CheckoutStepOnePage.enter_first_name
CheckoutStepOnePage_enter_first_name(first_name) == <<Fill(FIRST_NAME_INPUT, first_name)>>

\* CheckoutStepOnePage.enter_last_name
CheckoutStepOnePage_enter_last_name(last_name) == <<Fill(LAST_NAME_INPUT, last_name)>>

\* CheckoutStepOnePage.enter_postal_code
CheckoutStepOnePage_enter_postal_code(postal_code) ==
    <<Fill(POSTAL_CODE_INPUT, postal_code)>>

\* a click_continue that clicks Cancel
CheckoutStepOnePage_click_continue_cancels == <<Click(CANCEL_BUTTON)>>

\* CheckoutStepOnePage.click_continue
CheckoutStepOnePage_click_continue == <<Click(CONTINUE_BUTTON)>>

\* a click_cancel that clicks Continue
CheckoutStepOnePage_click_cancel_continues == <<Click(CONTINUE_BUTTON)>>

\* CheckoutStepOnePage.click_cancel
CheckoutStepOnePage_click_cancel == <<Click(CANCEL_BUTTON)>>

\* CheckoutStepTwoPage.click_finish
CheckoutStepTwoPage_click_finish == <<Click(FINISH_BUTTON)>>

\* CheckoutStepTwoPage.click_cancel
CheckoutStepTwoPage_click_cancel == <<Click(CANCEL_BUTTON)>>

\* CheckoutCompletePage.click_back_home
CheckoutCompletePage_click_back_home == <<Click(BACK_HOME_BUTTON)>>

\* InventoryPage.is_product_in_cart
InventoryPage_is_product_in_cart(a, s, product_name, drv) ==
    BasePage_is_visible(a, s, DataTest("remove-", Slug(product_name)), Some(2000), drv)

\* InventoryPage.is_cart_badge_visible
InventoryPage_is_cart_badge_visible(a, s, drv) ==
    BasePage_is_visible(a, s, SHOPPING_CART_BADGE, Some(2000), drv)

\* int(text) for the decimal numerals of small naturals; anything else is
\* a ValueError
IsNumeral(text) == \E n \in 0..9 : ToString(n) = text
IntOf(text) == CHOOSE n \in 0..9 : ToString(n) = text

\* InventoryPage.get_cart_item_count: if is_visible(badge, 2000): return
\* int(get_text(badge)); return 0
InventoryPage_get_cart_item_count(a, s, drv, drv2) ==
    LET v == BasePage_is_visible(a, s, SHOPPING_CART_BADGE, Some(2000), drv)
        t == BasePage_get_text(a, s, SHOPPING_CART_BADGE, None, drv2)
    IN  IF v.ret = <<FALSE>>
        THEN [app |-> a, raised |-> "none", ret |-> <<0>>, calls |-> v.calls]
        ELSE IF t.raised # "none"
        THEN [app |-> a, raised |-> t.raised, ret |-> <<>>, calls |-> v.calls \o t.calls]
        ELSE IF ~IsNumeral(t.ret[1])
        THEN [app |-> a, raised |-> "ValueError", ret |-> <<>>, calls |-> v.calls \o t.calls]
        ELSE [app |-> a, raised |-> "none", ret |-> <<IntOf(t.ret[1])>>,
              calls |-> v.calls \o t.calls]

\* CheckoutStepOnePage.get_error_message
CheckoutStepOnePage_get_error_message(a, s, drv) ==
    BasePage_get_text(a, s, ERROR_MESSAGE, None, drv)

\* CheckoutStepOnePage.is_error_displayed
CheckoutStepOnePage_is_error_displayed(a, s, drv) ==
    BasePage_is_visible(a, s, ERROR_MESSAGE, Some(2000), drv)

\* ------------------------------------------------ Python floats
\* A float near a whole number of cents is kept exactly, as the pair
\* (cents, err) that stands for cents/100 + err/(100 * 2^59): err is the
\* rounding error of the 53-bit binary value, in units fine enough for the
\* literal 0.01.  MaxExp bounds the binary exponent (amounts below 2^(MaxExp+1)).
MaxExp == 6

\* the binary exponent j of c/100, c > 0: 2^j <= c/100 < 2^(j+1)
Exp(c) ==
    CHOOSE j \in -7..MaxExp : 100 * 2^(j + 7) <= c * 128 /\ c * 128 < 100 * 2^(j + 8)

RECURSIVE Pow2Mod(_, _)
\* 2^k modulo m
Pow2Mod(k, m) == IF k = 0 THEN 1 % m ELSE (2 * Pow2Mod(k - 1, m)) % m

\* float("<c/100>"): the double nearest to c/100, ties to even.  With
\* k = 52 - j the significand is c * 2^k / 100 rounded to an integer; the
\* remainder of c * 2^k modulo 100 is what rounding drops or adds.
Double(c) ==
    IF c = 0 THEN [cents |-> 0, err |-> 0]
    ELSE LET j == Exp(c)
             x == ((c % 200) * Pow2Mod(52 - j, 200)) % 200
             r == x % 100
             odd == x \div 100 = 1
             d == IF r < 50 THEN 0 - r
                  ELSE IF r > 50 THEN 100 - r
                  ELSE IF odd THEN 50 ELSE 0 - 50
         IN  [cents |-> c, err |-> d * 2^(j + 7)]

\* x + y, up to the rounding of the sum, which is far below half a cent
\* and which round(.., 2) drops
FloatAdd(x, y) == [cents |-> x.cents + y.cents, err |-> x.err + y.err]

\* round(x, 2): the double nearest to the two-decimal number nearest to x
Round2(x) == Double(x.cents)

\* x - y for two amounts: the difference of two doubles within a factor
\* of two of each other is exact
FloatSub(x, y) == [cents |-> x.cents - y.cents, err |-> x.err - y.err]

FloatNeg(x) == [cents |-> 0 - x.cents, err |-> 0 - x.err]

\* x < y; err stays far below half a cent, so the order is lexicographic
FloatLess(x, y) == x.cents < y.cents \/ (x.cents = y.cents /\ x.err < y.err)

\* abs(x)
FloatAbs(x) == IF FloatLess(x, Double(0)) THEN FloatNeg(x) ELSE x

RECURSIVE Split(_, _)
\* text.split(sep)
Split(text, sep) ==
    IF \A i \in DOMAIN text : text[i] # sep THEN <<text>>
    ELSE LET i == CHOOSE n \in DOMAIN text :
                      text[n] = sep /\ \A m \in 1..(n - 1) : text[m] # sep
         IN  <<SubSeq(text, 1, i - 1)>> \o Split(SubSeq(text, i + 1, Len(text)), sep)

RECURSIVE NatOf(_)
\* the natural number a sequence of digits writes
NatOf(ds) ==
    IF ds = <<>> THEN 0
    ELSE NatOf(SubSeq(ds, 1, Len(ds) - 1)) * 10 + IntOf(ds[Len(ds)])

\* the numerals the summary shows: digits, a point, two digits
IsAmount(t) ==
    /\ Len(t) >= 4
    /\ t[Len(t) - 2] = "."
    /\ \A i \in DOMAIN t : i # Len(t) - 2 => IsNumeral(t[i])

\* float(t) for such a numeral
FloatOf(t) ==
    Double(NatOf(SubSeq(t, 1, Len(t) - 3)) * 100 + NatOf(SubSeq(t, Len(t) - 1, Len(t))))

\* text = self.get_text(selector); return float(text.split('$')[1])
SummaryAmount(a, s, sel, drv) ==
    LET t == BasePage_get_text(a, s, sel, None, drv)
        parts == Split(t.ret[1], "$")
    IN  IF t.raised # "none" THEN t
        ELSE IF Len(parts) < 2 THEN [t EXCEPT !.raised = "IndexError", !.ret = <<>>]
        ELSE IF ~IsAmount(parts[2]) THEN [t EXCEPT !.raised = "ValueError", !.ret = <<>>]
        ELSE [t EXCEPT !.ret = <<FloatOf(parts[2])>>]

\* CheckoutStepTwoPage.get_subtotal
CheckoutStepTwoPage_get_subtotal(a, s, drv) == SummaryAmount(a, s, SUMMARY_SUBTOTAL, drv)

\* CheckoutStepTwoPage.get_tax
CheckoutStepTwoPage_get_tax(a, s, drv) == SummaryAmount(a, s, SUMMARY_TAX, drv)

\* CheckoutStepTwoPage.get_total
CheckoutStepTwoPage_get_total(a, s, drv) == SummaryAmount(a, s, SUMMARY_TOTAL, drv)

\* CheckoutStepTwoPage.verify_total_calculation
CheckoutStepTwoPage_verify_total_calculation(a, s, drvs) ==
    LET subtotal == CheckoutStepTwoPage_get_subtotal(a, s, drvs[1])
        tax == CheckoutStepTwoPage_get_tax(a, s, drvs[2])
        total == CheckoutStepTwoPage_get_total(a, s, drvs[3])
        calculated_total == Round2(FloatAdd(subtotal.ret[1], tax.ret[1]))
    IN  IF subtotal.raised # "none" THEN subtotal
        ELSE IF tax.raised # "none"
        THEN [tax EXCEPT !.calls = subtotal.calls \o tax.calls]
        ELSE IF total.raised # "none"
        THEN [total EXCEPT !.calls = subtotal.calls \o tax.calls \o total.calls]
        ELSE [app |-> a, raised |-> "none",
              ret |-> <<FloatLess(FloatAbs(FloatSub(calculated_total, total.ret[1])),
                                  Double(1))>>,
              calls |-> subtotal.calls \o tax.calls \o total.calls]

\* price.replace('$', '')
ReplaceDollar(text) == SelectSeq(text, LAMBDA ch : ch # "$")

\* [float(price.replace('$', '')) for price in price_texts]
PricesOf(r) ==
    IF \E k \in DOMAIN r.ret[1] : ~IsAmount(ReplaceDollar(r.ret[1][k]))
    THEN [r EXCEPT !.raised = "ValueError", !.ret = <<>>]
    ELSE [r EXCEPT !.ret = <<[k \in DOMAIN r.ret[1] |-> FloatOf(ReplaceDollar(r.ret[1][k]))]>>]

\* InventoryPage.get_all_product_names
InventoryPage_get_all_product_names(a) == BasePage_get_all_texts(a, INVENTORY_ITEM_NAME)

\* InventoryPage.get_all_product_prices
InventoryPage_get_all_product_prices(a) ==
    PricesOf(BasePage_get_all_texts(a, INVENTORY_ITEM_PRICE))

\* a sort that always selects the first option
InventoryPage_sort_products_first(a, s, sort_option, drv) ==
    BasePage_select_option(a, s, PRODUCT_SORT_CONTAINER, SORT_NAME_ASC, drv)

\* InventoryPage.sort_products
InventoryPage_sort_products(a, s, sort_option, drv) ==
    BasePage_select_option(a, s, PRODUCT_SORT_CONTAINER, sort_option, drv)

\* InventoryPage.get_current_sort_value:
\* self.page.locator(self.PRODUCT_SORT_CONTAINER).input_value()
InventoryPage_get_current_sort_value(a, s, drv) ==
    LET r == Reads(a, PRODUCT_SORT_CONTAINER, drv)
    IN  [app |-> a, raised |-> r, ret |-> IF r = "none" THEN <<a.sort>> ELSE <<>>,
         calls |-> <<DriverCall("input_value", PRODUCT_SORT_CONTAINER, "", None, r)>>]

\* a count read once and kept
CartPage_get_cart_item_count_kept(a) ==
    [BasePage_get_element_count(a, CART_ITEM) EXCEPT !.ret = <<0>>]

\* CartPage.get_cart_item_count
CartPage_get_cart_item_count(a) == BasePage_get_element_count(a, CART_ITEM)

\* CartPage.get_all_item_names
CartPage_get_all_item_names(a) == BasePage_get_all_texts(a, CART_ITEM_NAME)

\* CartPage.get_all_item_prices
CartPage_get_all_item_prices(a) == PricesOf(BasePage_get_all_texts(a, CART_ITEM_PRICE))

RECURSIVE FloatSum(_)
\* sum(list): 0 + list[0] + list[1] + ..., up to the rounding of the sums
FloatSum(list) ==
    IF list = <<>> THEN Double(0)
    ELSE FloatAdd(FloatSum(SubSeq(list, 1, Len(list) - 1)), list[Len(list)])

\* CartPage.get_total_price
CartPage_get_total_price(a) ==
    LET r == CartPage_get_all_item_prices(a)
    IN  IF r.raised # "none" THEN r ELSE [r EXCEPT !.ret = <<FloatSum(r.ret[1])>>]

\* CartPage.get_cart_badge_count: if is_visible(badge, 2000): return
\* int(get_text(badge)); return 0
\* a badge count that counts the cart items the page lists instead
CartPage_get_cart_badge_count_items(a, s, drv, drv2) ==
    [app |-> a, raised |-> "none", ret |-> <<locator_count(a, CART_ITEM)>>,
     calls |-> <<DriverCall("count", CART_ITEM, "", None, "none")>>]

\* CartPage.get_cart_badge_count
CartPage_get_cart_badge_count(a, s, drv, drv2) ==
    LET v == BasePage_is_visible(a, s, SHOPPING_CART_BADGE, Some(2000), drv)
        t == BasePage_get_text(a, s, SHOPPING_CART_BADGE, None, drv2)
    IN  IF v.ret = <<FALSE>>
        THEN [app |-> a, raised |-> "none", ret |-> <<0>>, calls |-> v.calls]
        ELSE IF t.raised # "none"
        THEN [app |-> a, raised |-> t.raised, ret |-> <<>>, calls |-> v.calls \o t.calls]
        ELSE IF ~IsNumeral(t.ret[1])
        THEN [app |-> a, raised |-> "ValueError", ret |-> <<>>, calls |-> v.calls \o t.calls]
        ELSE [app |-> a, raised |-> "none", ret |-> <<IntOf(t.ret[1])>>,
              calls |-> v.calls \o t.calls]

\* BasePage.get_url
BasePage_get_url(a) == Url(a)

\* an is_loaded that is a URL substring check: '<name>' in self.get_url()
UrlIsLoaded(a, name) ==
    [app |-> a, raised |-> "none", calls |-> <<>>,
     ret |-> <<Contains(name, BasePage_get_url(a))>>]

\* LoginPage defines no is_loaded and BasePage has none to inherit
LoginPage_is_loaded(a) ==
    [app |-> a, raised |-> "AttributeError", calls |-> <<>>, ret |-> <<>>]

\* an is_loaded built on the probe that lets the driver's error through
InventoryPage_is_loaded_nocatch(a, s, drv) ==
    BasePage_is_visible_nocatch(a, s, INVENTORY_CONTAINER, Some(10000), drv)

\* InventoryPage.is_loaded
InventoryPage_is_loaded(a, s, drv) ==
    BasePage_is_visible(a, s, INVENTORY_CONTAINER, Some(10000), drv)

\* CartPage.is_loaded
CartPage_is_loaded(a) ==
    UrlIsLoaded(a, <<"c", "a", "r", "t", ".", "h", "t", "m", "l">>)

\* CheckoutStepOnePage.is_loaded
CheckoutStepOnePage_is_loaded(a) ==
    UrlIsLoaded(a, <<"c", "h", "e", "c", "k", "o", "u", "t", "-", "s", "t", "e", "p",
                     "-", "o", "n", "e">>)

\* CheckoutStepTwoPage.is_loaded
CheckoutStepTwoPage_is_loaded(a) ==
    UrlIsLoaded(a, <<"c", "h", "e", "c", "k", "o", "u", "t", "-", "s", "t", "e", "p",
                     "-", "t", "w", "o">>)

\* CheckoutCompletePage.is_loaded
CheckoutCompletePage_is_loaded(a) ==
    UrlIsLoaded(a, <<"c", "h", "e", "c", "k", "o", "u", "t", "-", "c", "o", "m", "p",
                     "l", "e", "t", "e">>)

\* buttons[index].click() on a list of located buttons: Python's list
\* subscript, then Locator.click()
ClickNth(a, buttons, index, drv) ==
    IF index >= 0 - Len(buttons)
    THEN LET sel == buttons[IF index >= 0 THEN index + 1 ELSE Len(buttons) + index + 1]
             r   == page_click(a, sel, drv)
         IN  [app |-> r.app, raised |-> r.raised,
              calls |-> <<DriverCall("click", sel, "", 0, r.raised)>>]
    ELSE [app |-> a, raised |-> "IndexError", calls |-> <<>>]

\* the by-index click without the index < len(...) guard: the driver waits
\* for an n-th button that is not there
ByIndex_noguard(a, sel, index, drv) ==
    LET buttons == All(a, sel)
    IN  IF index >= 0 /\ index >= Len(buttons)
        THEN [app |-> a, raised |-> "TimeoutError",
              calls |-> <<DriverCall("click", sel, "", 0, "TimeoutError")>>]
        ELSE ClickNth(a, buttons, index, drv)

\* InventoryPage.add_product_to_cart_by_index / CartPage.remove_item_by_index:
\* buttons = self.page.locator(sel).all(); if index < len(buttons): buttons[index].click()
ByIndex(a, sel, index, drv) ==
    LET buttons == All(a, sel)
    IN  IF index < Len(buttons) THEN ClickNth(a, buttons, index, drv)
        ELSE [app |-> a, raised |-> "none", calls |-> <<>>]

InventoryPage_add_product_to_cart_by_index(a, index, drv) ==
    ByIndex(a, ADD_TO_CART_BUTTON, index, drv)

CartPage_remove_item_by_index(a, index, drv) ==
    ByIndex(a, REMOVE_BUTTON, index, drv)

\* ret is the returned value in a one-element sequence, <<>> for None;
\* timeout is the timeout argument the caller passed, arg the product name
\* InventoryPage.get_product_count: the number of .inventory_item elements
InventoryPage_get_product_count(a) == locator_count(a, INVENTORY_ITEM)

RECURSIVE AddAllFrom(_, _, _, _)
\* for i in range(i, product_count): self.add_product_to_cart_by_index(i)
AddAllFrom(a, i, product_count, drv) ==
    IF i >= product_count THEN [app |-> a, raised |-> "none", calls |-> <<>>]
    ELSE LET r == InventoryPage_add_product_to_cart_by_index(a, i, drv)
         IN  IF r.raised # "none" THEN r
             ELSE LET rest == AddAllFrom(r.app, i + 1, product_count, drv)
                  IN  [app |-> rest.app, raised |-> rest.raised,
                       calls |-> r.calls \o rest.calls]

\* InventoryPage.add_all_products_to_cart
InventoryPage_add_all_products_to_cart(a, drv) ==
    AddAllFrom(a, 0, InventoryPage_get_product_count(a), drv)

RECURSIVE CountAccuracyFrom(_, _, _, _, _)
\* test_cart_badge_count_accuracy, iterations i..k of its loop:
\* add_product_to_cart_by_index(i-1); assert get_cart_item_count() == i
CountAccuracyFrom(a, s, i, k, drv) ==
    IF i > k THEN [app |-> a, raised |-> "none", ret |-> <<k>>]
    ELSE LET r == InventoryPage_add_product_to_cart_by_index(a, i - 1, drv)
             c == InventoryPage_get_cart_item_count(r.app, s, drv, drv)
         IN  IF r.raised # "none" THEN [app |-> r.app, raised |-> r.raised, ret |-> <<>>]
             ELSE IF c.raised # "none"
             THEN [app |-> r.app, raised |-> c.raised, ret |-> <<>>]
             ELSE IF c.ret # <<i>>
             THEN [app |-> r.app, raised |-> "AssertionError", ret |-> c.ret]
             ELSE CountAccuracyFrom(r.app, s, i + 1, k, drv)

NoLast == [method |-> "none", index |-> 0, count |-> 0, steps |-> 0,
           raised |-> "none", calls |-> <<>>, ret |-> <<>>, timeout |-> None,
           arg |-> <<>>]

\* the browser right after login_page.navigate(): the login screen
ActionInit ==
    /\ app = [screen |-> "login", cart |-> <<>>, form |-> EmptyForm, error |-> "",
              products |-> NumProducts, sort |-> SORT_NAME_ASC,
      prices |-> FlatPrices]
    /\ last = NoLast

\* ------------------------------------------------------------ pytest
NoReport == [setup |-> "absent", call |-> "absent", teardown |-> "absent"]

\* the hookwrapper: setattr(item, "rep_" + rep.when, rep)
pytest_runtest_makereport(r, when, outcome) == [r EXCEPT ![when] = outcome]

NoObjs == [n \in PageObjectNames |-> NoHandle]
NoCache == [context |-> NoHandle, page |-> NoHandle]

FixtureInit ==
    /\ pc = "between"
    /\ cur = 0
    /\ pw = "none"
    /\ browser = "none"
    /\ launches = 0
    /\ closes = 0
    /\ handles = <<>>
    /\ cache = NoCache
    /\ objs = NoObjs
    /\ helper = "none"
    /\ rep = NoReport
    /\ calls = <<>>
    /\ warnings = {}
    /\ tdError = FALSE
    /\ finished = <<>>

Init ==
    /\ settings \in {[DefaultSettings EXCEPT !.screenshot_on_failure = sf,
                                             !.trace_on_failure = tf] :
                        sf \in BOOLEAN, tf \in BOOLEAN}
    /\ FixtureInit
    /\ CredInit
    /\ ProcessInit
    /\ ActionInit

\* ------------------------------------------------- conftest.py fixtures
\* one driver or filesystem call made for an artifact or a close
Call(op, on, path, ok, hs) ==
    [op |-> op, on |-> on, path |-> path, ok |-> ok,
     live |-> (on = NoHandle \/ IsOpen(hs, on))]

NoBlock == [attempted |-> FALSE, calls |-> <<>>, warnings |-> {}, raised |-> FALSE]

\* the path without the "failure_" prefix
ScreenshotPath_noprefix(s, name) ==
    screenshots_path(s) \o "/" \o name \o ".png"

\* f"failure_{request.node.name}" and screenshots_path / f"{screenshot_name}.png"
ScreenshotPath(s, name) ==
    screenshots_path(s) \o "/" \o "failure_" \o name \o ".png"

\* the screenshot block without its try/except: a failed capture propagates
screenshot_block_nocatch(r, s, name, pg, hs, drv) ==
    IF r.call # "absent" /\ r.call = "failed" /\ s.screenshot_on_failure
    THEN [attempted |-> TRUE,
          calls |-> <<Call("mkdir", NoHandle, screenshots_path(s),
                           drv # "mkdir_raises", hs)>>
                    \o (IF drv = "mkdir_raises" THEN <<>>
                        ELSE <<Call("screenshot", pg, ScreenshotPath(s, name),
                                    drv = "ok", hs)>>),
          warnings |-> {},
          raised |-> drv # "ok"]
    ELSE NoBlock

\* a finalizer that closes the Page before taking the screenshot
screenshot_block_after_close(r, s, name, pg, hs, drv) ==
    IF r.call # "absent" /\ r.call = "failed" /\ s.screenshot_on_failure
    THEN [attempted |-> TRUE,
          calls |-> <<Call("mkdir", NoHandle, screenshots_path(s),
                           drv # "mkdir_raises", hs)>>
                    \o (IF drv = "mkdir_raises" THEN <<>>
                        ELSE <<Call("screenshot", pg, ScreenshotPath(s, name),
                                    drv = "ok", close(hs, pg))>>),
          warnings |-> IF drv = "ok" THEN {} ELSE {"Could not capture screenshot"},
          raised |-> FALSE]
    ELSE NoBlock

\* a condition that looks at the flag only, whatever the test's outcome
ShouldCapture_flag_only(r, s) == s.screenshot_on_failure

\* hasattr(request.node, 'rep_call') and request.node.rep_call.failed and
\* settings.screenshot_on_failure
ShouldCapture(r, s) == r.call # "absent" /\ r.call = "failed" /\ s.screenshot_on_failure

\* page fixture, the try/except after the yield. drv is what the filesystem
\* and the driver do: "ok", "mkdir_raises" or "screenshot_raises".
screenshot_block(r, s, name, pg, hs, drv) ==
    IF ShouldCapture(r, s)
    THEN [attempted |-> TRUE,
          calls |-> <<Call("mkdir", NoHandle, screenshots_path(s),
                           drv # "mkdir_raises", hs)>>
                    \o (IF drv = "mkdir_raises" THEN <<>>
                        ELSE <<Call("screenshot", pg, ScreenshotPath(s, name),
                                    drv = "ok", hs)>>),
          warnings |-> IF drv = "ok" THEN {} ELSE {"Could not capture screenshot"},
          raised |-> FALSE]
    ELSE NoBlock

\* context fixture, the try/except around context.tracing.start
tracing_start_block(s, c, hs, drv) ==
    IF s.trace_on_failure
    THEN [attempted |-> TRUE,
          calls |-> <<Call("tracing.start", c, "", drv = "ok", hs)>>,
          warnings |-> IF drv = "ok" THEN {} ELSE {"Could not start tracing"},
          raised |-> FALSE]
    ELSE NoBlock

\* tracing.stop without its try/except: a failed stop propagates
tracing_stop_block_nocatch(s, c, hs, drv) ==
    IF s.trace_on_failure
    THEN [attempted |-> TRUE,
          calls |-> <<Call("tracing.stop", c, "reports/trace.zip", drv = "ok", hs)>>,
          warnings |-> {},
          raised |-> drv # "ok"]
    ELSE NoBlock

\* context fixture, the try/except around context.tracing.stop
tracing_stop_block(s, c, hs, drv) ==
    IF s.trace_on_failure
    THEN [attempted |-> TRUE,
          calls |-> <<Call("tracing.stop", c, "reports/trace.zip", drv = "ok", hs)>>,
          warnings |-> IF drv = "ok" THEN {} ELSE {"Could not stop tracing"},
          raised |-> FALSE]
    ELSE NoBlock

\* BasePage.__init__: self.page = page
BasePage_init(pg) == pg

\* pytest takes the next collected item and starts its setup phase
StartTest ==
    /\ pc = "between"
    /\ cur < NumTests
    /\ cur' = cur + 1
    /\ pc' = "setup"
    /\ rep' = NoReport
    /\ calls' = <<>>
    /\ warnings' = {}
    /\ helper' = "none"
    /\ tdError' = FALSE
    /\ UNCHANGED <<settings, nonFixtureVars, pw, browser, launches, closes, handles, cache, objs, finished>>

\* a fixture raised during setup: the item is reported with rep_setup failed,
\* the body does not run, the finalizers of the fixtures set up so far run
SetupFailed ==
    /\ rep' = pytest_runtest_makereport(rep, "setup", "failed")
    /\ pc' = "teardown"

\* playwright_instance (session scope): entered once, cached for the run
playwright_instance_setup ==
    /\ pc = "setup"
    /\ pw = "none"
    /\ pw' = "started"
    /\ UNCHANGED <<settings, nonFixtureVars, pc, cur, browser, launches, closes, handles, cache,
                   objs, helper, rep, calls, warnings, tdError, finished>>

\* browser (session scope): browser_type.launch, cached for the run
browser_setup ==
    /\ pc = "setup"
    /\ pw = "started"
    /\ browser = "none"
    /\ browser' = "open"
    /\ launches' = launches + 1
    /\ UNCHANGED <<settings, nonFixtureVars, pc, cur, pw, closes, handles, cache, objs, helper,
                   rep, calls, warnings, tdError, finished>>

\* context (function scope), up to the yield
context_setup ==
    /\ pc = "setup"
    /\ browser = "open"
    /\ cache.context = NoHandle
    /\ \E drv \in {"ok", "raises"} :
         LET hs  == new_context(handles, cur)
             c   == Len(hs)
             blk == tracing_start_block(settings, c, hs, drv)
         IN  /\ handles' = hs
             /\ calls' = calls \o blk.calls
             /\ warnings' = warnings \cup blk.warnings
             /\ IF blk.raised
                THEN SetupFailed /\ UNCHANGED cache
                ELSE /\ cache' = [cache EXCEPT !.context = c]
                     /\ UNCHANGED <<pc, rep>>
    /\ UNCHANGED <<settings, nonFixtureVars, cur, pw, browser, launches, closes, objs, helper,
                   tdError, finished>>

\* page (function scope), up to the yield
page_setup ==
    /\ pc = "setup"
    /\ cache.context # NoHandle
    /\ cache.page = NoHandle
    /\ handles' = new_page(handles, cache.context, cur)
    /\ cache' = [cache EXCEPT !.page = Len(handles')]
    /\ UNCHANGED <<settings, nonFixtureVars, pc, cur, pw, browser, launches, closes, objs, helper,
                   rep, calls, warnings, tdError, finished>>

\* a page-object fixture that opens a page of its own in the test's context
PageObjectFixture_newpage(n) ==
    /\ pc = "setup"
    /\ cache.page # NoHandle
    /\ objs[n] = NoHandle
    /\ handles' = new_page(handles, cache.context, cur)
    /\ objs' = [objs EXCEPT ![n] = BasePage_init(Len(handles'))]
    /\ UNCHANGED <<settings, nonFixtureVars, pc, cur, pw, browser, launches, closes,
                   cache, helper, rep, calls, warnings, tdError, finished>>

\* login_page .. checkout_complete_page: return <PageObject>(page)
PageObjectFixture(n) ==
    /\ pc = "setup"
    /\ cache.page # NoHandle
    /\ objs[n] = NoHandle
    /\ objs' = [objs EXCEPT ![n] = BasePage_init(cache.page)]
    /\ UNCHANGED <<settings, nonFixtureVars, pc, cur, pw, browser, launches, closes, handles,
                   cache, helper, rep, calls, warnings, tdError, finished>>

login_page == PageObjectFixture("login_page")
inventory_page == PageObjectFixture("inventory_page")
cart_page == PageObjectFixture("cart_page")
checkout_step_one_page == PageObjectFixture("checkout_step_one_page")
checkout_step_two_page == PageObjectFixture("checkout_step_two_page")
checkout_complete_page == PageObjectFixture("checkout_complete_page")

\* logged_in_user: navigate, login, assert inventory_page.is_loaded(); res is
\* whether that chain went through or raised (a timeout or the assert)
logged_in_user ==
    /\ pc = "setup"
    /\ helper = "none"
    /\ objs["login_page"] # NoHandle
    /\ objs["inventory_page"] # NoHandle
    /\ \E res \in {"ok", "raises"} :
         IF res = "ok"
         THEN helper' = "logged_in_user" /\ UNCHANGED <<pc, rep>>
         ELSE SetupFailed /\ UNCHANGED helper
    /\ UNCHANGED <<settings, nonFixtureVars, cur, pw, browser, launches, closes, handles, cache,
                   objs, calls, warnings, tdError, finished>>

\* cart_with_items: add two products, open the cart, assert cart_page.is_loaded()
cart_with_items ==
    /\ pc = "setup"
    /\ helper = "logged_in_user"
    /\ objs["cart_page"] # NoHandle
    /\ \E res \in {"ok", "raises"} :
         IF res = "ok"
         THEN helper' = "cart_with_items" /\ UNCHANGED <<pc, rep>>
         ELSE SetupFailed /\ UNCHANGED helper
    /\ UNCHANGED <<settings, nonFixtureVars, cur, pw, browser, launches, closes, handles, cache,
                   objs, calls, warnings, tdError, finished>>

\* every requested fixture is set up: pytest reports the setup phase
SetupDone ==
    /\ pc = "setup"
    /\ cache.page # NoHandle
    /\ rep' = pytest_runtest_makereport(rep, "setup", "passed")
    /\ pc' = "call"
    /\ UNCHANGED <<settings, nonFixtureVars, cur, pw, browser, launches, closes, handles, cache,
                   objs, helper, calls, warnings, tdError, finished>>

\* the objects the test function was handed: its context, its page and the
\* pages its page objects wrap
Handed == {cache.context, cache.page} \cup {objs[n] : n \in PageObjectNames}

\* the test function runs with what it was handed and passes or fails;
\* pytest reports the call phase
TestBody ==
    /\ pc = "call"
    /\ \E outcome \in {"passed", "failed"} :
         rep' = pytest_runtest_makereport(rep, "call", outcome)
    /\ handles' = [i \in DOMAIN handles |->
                     IF i \in Handed
                     THEN [handles[i] EXCEPT !.users = @ \cup {cur}]
                     ELSE handles[i]]
    /\ pc' = "teardown"
    /\ UNCHANGED <<settings, nonFixtureVars, cur, pw, browser, launches, closes, cache, objs,
                   helper, calls, warnings, tdError, finished>>

\* the page finalizer without its page.close()
page_teardown_noclose ==
    /\ pc = "teardown"
    /\ cache.page # NoHandle
    /\ \E drv \in {"ok", "mkdir_raises", "screenshot_raises"} :
         LET pg  == cache.page
             blk == screenshot_block(rep, settings, NodeName(cur), pg, handles, drv)
         IN  /\ warnings' = warnings \cup blk.warnings
             /\ calls' = calls \o blk.calls
    /\ cache' = [cache EXCEPT !.page = NoHandle]
    /\ objs' = NoObjs
    /\ UNCHANGED <<settings, nonFixtureVars, pc, cur, pw, browser, launches, closes, helper, rep,
                   handles, tdError, finished>>

\* page (function scope), after the yield: the screenshot block, then page.close()
page_teardown ==
    /\ pc = "teardown"
    /\ cache.page # NoHandle
    /\ \E drv \in {"ok", "mkdir_raises", "screenshot_raises"} :
         LET pg  == cache.page
             blk == screenshot_block(rep, settings, NodeName(cur), pg, handles, drv)
         IN  /\ warnings' = warnings \cup blk.warnings
             /\ IF blk.raised
                THEN /\ calls' = calls \o blk.calls
                     /\ tdError' = TRUE
                     /\ UNCHANGED handles
                ELSE /\ calls' = calls \o blk.calls
                                 \o <<Call("page.close", pg, "", TRUE, handles)>>
                     /\ handles' = close(handles, pg)
                     /\ UNCHANGED tdError
    /\ cache' = [cache EXCEPT !.page = NoHandle]
    /\ objs' = NoObjs
    /\ UNCHANGED <<settings, nonFixtureVars, pc, cur, pw, browser, launches, closes, helper, rep,
                   finished>>

\* context (function scope), after the yield: tracing.stop, then context.close()
context_teardown ==
    /\ pc = "teardown"
    /\ cache.page = NoHandle
    /\ cache.context # NoHandle
    /\ \E drv \in {"ok", "raises"} :
         LET c   == cache.context
             blk == tracing_stop_block(settings, c, handles, drv)
         IN  /\ warnings' = warnings \cup blk.warnings
             /\ IF blk.raised
                THEN /\ calls' = calls \o blk.calls
                     /\ tdError' = TRUE
                     /\ UNCHANGED handles
                ELSE /\ calls' = calls \o blk.calls
                                 \o <<Call("context.close", c, "", TRUE, handles)>>
                     /\ handles' = close(handles, c)
                     /\ UNCHANGED tdError
    /\ cache' = [cache EXCEPT !.context = NoHandle]
    /\ UNCHANGED <<settings, nonFixtureVars, pc, cur, pw, browser, launches, closes, objs, helper,
                   rep, finished>>

\* the function-scoped finalizers have run: pytest reports the teardown phase
FinishTest ==
    /\ pc = "teardown"
    /\ cache = NoCache
    /\ rep' = pytest_runtest_makereport(rep, "teardown",
                                        IF tdError THEN "failed" ELSE "passed")
    /\ finished' = Append(finished, rep')
    /\ pc' = IF cur = NumTests THEN "session_teardown" ELSE "between"
    /\ UNCHANGED <<settings, nonFixtureVars, cur, pw, browser, launches, closes, handles, cache,
                   objs, helper, calls, warnings, tdError>>

\* the browser finalizer run at function scope: after each test's finalizers
browser_teardown_per_test ==
    /\ pc = "teardown"
    /\ cache = NoCache
    /\ browser = "open"
    /\ browser' = "closed"
    /\ closes' = closes + 1
    /\ handles' = browser_close(handles)
    /\ UNCHANGED <<settings, nonFixtureVars, pc, cur, pw, launches, cache, objs, helper, rep,
                   calls, warnings, tdError, finished>>

\* browser (session scope), after the yield: browser.close()
browser_teardown ==
    /\ pc = "session_teardown"
    /\ browser = "open"
    /\ browser' = "closed"
    /\ closes' = closes + 1
    /\ handles' = browser_close(handles)
    /\ UNCHANGED <<settings, nonFixtureVars, pc, cur, pw, launches, cache, objs, helper, rep,
                   calls, warnings, tdError, finished>>

\* playwright_instance (session scope), after the yield: the with block exits
playwright_instance_teardown ==
    /\ pc = "session_teardown"
    /\ browser # "open"
    /\ pw = "started"
    /\ pw' = "stopped"
    /\ pc' = "done"
    /\ UNCHANGED <<settings, nonFixtureVars, cur, browser, launches, closes, handles, cache, objs,
                   helper, rep, calls, warnings, tdError, finished>>

Next ==
    \/ StartTest
    \/ playwright_instance_setup
    \/ browser_setup
    \/ context_setup
    \/ page_setup
    \/ login_page
    \/ inventory_page
    \/ cart_page
    \/ checkout_step_one_page
    \/ checkout_step_two_page
    \/ checkout_complete_page
    \/ logged_in_user
    \/ cart_with_items
    \/ SetupDone
    \/ TestBody
    \/ page_teardown
    \/ context_teardown
    \/ FinishTest
    \/ browser_teardown
    \/ playwright_instance_teardown

vars == <<settings, fixtureVars, credVars, actionVars, processVars>>

Spec == Init /\ [][Next]_vars

\* ------------------------------------------- the credential lookups
\* environment overrides of the fields the lookups read
CredSettings ==
    {[DefaultSettings EXCEPT !.standard_user = su, !.locked_user = lu,
                             !.default_password = pwd] :
        su \in {"standard_user", "qa_standard"},
        lu \in {"locked_out_user", "qa_locked"},
        pwd \in {"secret_sauce", "qa_secret"}}

CredSpecInit ==
    /\ settings \in CredSettings
    /\ FixtureInit
    /\ CredInit
    /\ ProcessInit
    /\ ActionInit

\* a caller looks a user type up in the settings
get_user_credentials_call ==
    /\ \E u \in UserTypeInputs :
         LET c == Settings_get_user_credentials(settings, u)
         IN  lookup' = [user_type |-> u, username |-> c.username,
                        password |-> c.password, raised |-> c.raised]
    /\ UNCHANGED <<settings, nonCredVars, produced, fakerN>>

\* a caller asks the generator for the credentials of a user type
test_data_get_user_credentials_call ==
    /\ \E u \in UserTypeInputs :
         LET c == Settings_get_user_credentials(settings, u)
         IN  /\ lookup' = [user_type |-> u, username |-> c.username,
                            password |-> c.password, raised |-> c.raised]
             /\ produced' =
                   [by |-> "get_user_credentials", asked |-> u,
                    records |-> IF c.raised = "none"
                                THEN <<TestDataGenerator_get_user_credentials(settings, u)>>
                                ELSE <<>>]
    /\ UNCHANGED <<settings, nonCredVars, fakerN>>

\* a caller asks the generator for the invalid credential list
generate_invalid_credentials_call ==
    /\ fakerN + 2 <= MaxDraws
    /\ produced' = [by |-> "generate_invalid_credentials", asked |-> "",
                    records |-> generate_invalid_credentials(fakerN)]
    /\ fakerN' = fakerN + 2
    /\ UNCHANGED <<settings, nonCredVars, lookup>>

CredNext ==
    \/ get_user_credentials_call
    \/ test_data_get_user_credentials_call
    \/ generate_invalid_credentials_call

CredSpec == CredSpecInit /\ [][CredNext]_vars

\* ------------------------------------------- the page-object actions
ActionSpecInit ==
    /\ settings = DefaultSettings
    /\ FixtureInit
    /\ CredInit
    /\ ProcessInit
    /\ ActionInit

Drv == {"ok", "slow"}

\* what the browser does at each of the n driver calls of a method: at
\* most one of them is slow, since a method ends at its first error
Drvs(n) == {[k \in 1..n |-> IF k = slowAt THEN "slow" ELSE "ok"] : slowAt \in 0..n}

UsernameInputs == {"", DefaultSettings.standard_user, DefaultSettings.locked_user}
PasswordInputs == {"", DefaultSettings.default_password}
FirstNameInputs == {"", "John"}
LastNameInputs == {"", "Doe"}
PostalCodeInputs == {"", "12345"}
ProductNameInputs == {ProductName[p] : p \in Products} \cup {<<"M", "u", "g">>}
IndexInputs == (0 - MaxIndex)..MaxIndex

\* a test calls a page-object method whose body is a sequence of
\* self.click / self.fill statements
MethodCall(method, body, drvs) ==
    LET r == Run(app, settings, body, drvs)
    IN  /\ app' = r.app
        /\ last' = [method |-> method, index |-> 0, count |-> 0, steps |-> Len(body),
                    raised |-> r.raised, calls |-> r.calls, ret |-> <<>>,
                    timeout |-> None, arg |-> <<>>]
        /\ UNCHANGED <<settings, nonActionVars>>

\* a test calls one of the by-index methods
IndexCall(method, sel, index, r) ==
    /\ app' = r.app
    /\ last' = [method |-> method, index |-> index, count |-> Len(All(app, sel)),
                steps |-> 1, raised |-> r.raised, calls |-> r.calls, ret |-> <<>>,
                timeout |-> None, arg |-> <<>>]
    /\ UNCHANGED <<settings, nonActionVars>>

login_call ==
    \E u \in UsernameInputs, p \in PasswordInputs, drvs \in Drvs(3) :
        MethodCall("LoginPage.login", LoginPage_login(u, p), drvs)

add_product_to_cart_by_name_call ==
    \E n \in ProductNameInputs, drvs \in Drvs(1) :
        MethodCall("InventoryPage.add_product_to_cart_by_name",
                   InventoryPage_add_product_to_cart_by_name(n), drvs)

remove_product_from_cart_by_name_call ==
    \E n \in ProductNameInputs, drvs \in Drvs(1) :
        MethodCall("InventoryPage.remove_product_from_cart_by_name",
                   InventoryPage_remove_product_from_cart_by_name(n), drvs)

add_product_to_cart_by_index_call ==
    \E i \in IndexInputs, drv \in Drv :
        IndexCall("InventoryPage.add_product_to_cart_by_index", ADD_TO_CART_BUTTON, i,
                  InventoryPage_add_product_to_cart_by_index(app, i, drv))

click_shopping_cart_call ==
    \E drvs \in Drvs(1) :
        MethodCall("InventoryPage.click_shopping_cart", InventoryPage_click_shopping_cart, drvs)

remove_item_by_name_call ==
    \E n \in ProductNameInputs, drvs \in Drvs(1) :
        MethodCall("CartPage.remove_item_by_name", CartPage_remove_item_by_name(n), drvs)

remove_item_by_index_call ==
    \E i \in IndexInputs, drv \in Drv :
        IndexCall("CartPage.remove_item_by_index", REMOVE_BUTTON, i,
                  CartPage_remove_item_by_index(app, i, drv))

continue_shopping_call ==
    \E drvs \in Drvs(1) :
        MethodCall("CartPage.continue_shopping", CartPage_continue_shopping, drvs)

proceed_to_checkout_call ==
    \E drvs \in Drvs(1) :
        MethodCall("CartPage.proceed_to_checkout", CartPage_proceed_to_checkout, drvs)

fill_information_call ==
    \E f \in FirstNameInputs, l \in LastNameInputs, z \in PostalCodeInputs,
       drvs \in Drvs(3) :
        MethodCall("CheckoutStepOnePage.fill_information",
                   CheckoutStepOnePage_fill_information(f, l, z), drvs)

enter_first_name_call ==
    \E f \in FirstNameInputs, drvs \in Drvs(1) :
        MethodCall("CheckoutStepOnePage.enter_first_name",
                   CheckoutStepOnePage_enter_first_name(f), drvs)

enter_last_name_call ==
    \E l \in LastNameInputs, drvs \in Drvs(1) :
        MethodCall("CheckoutStepOnePage.enter_last_name",
                   CheckoutStepOnePage_enter_last_name(l), drvs)

enter_postal_code_call ==
    \E z \in PostalCodeInputs, drvs \in Drvs(1) :
        MethodCall("CheckoutStepOnePage.enter_postal_code",
                   CheckoutStepOnePage_enter_postal_code(z), drvs)

click_continue_call ==
    \E drvs \in Drvs(1) :
        MethodCall("CheckoutStepOnePage.click_continue", CheckoutStepOnePage_click_continue, drvs)

step_one_click_cancel_call ==
    \E drvs \in Drvs(1) :
        MethodCall("CheckoutStepOnePage.click_cancel", CheckoutStepOnePage_click_cancel, drvs)

click_finish_call ==
    \E drvs \in Drvs(1) :
        MethodCall("CheckoutStepTwoPage.click_finish", CheckoutStepTwoPage_click_finish, drvs)

step_two_click_cancel_call ==
    \E drvs \in Drvs(1) :
        MethodCall("CheckoutStepTwoPage.click_cancel", CheckoutStepTwoPage_click_cancel, drvs)

click_back_home_call ==
    \E drvs \in Drvs(1) :
        MethodCall("CheckoutCompletePage.click_back_home",
                   CheckoutCompletePage_click_back_home, drvs)

ActionNext ==
    \/ login_call
    \/ add_product_to_cart_by_name_call
    \/ remove_product_from_cart_by_name_call
    \/ add_product_to_cart_by_index_call
    \/ click_shopping_cart_call
    \/ remove_item_by_name_call
    \/ remove_item_by_index_call
    \/ continue_shopping_call
    \/ proceed_to_checkout_call
    \/ fill_information_call
    \/ enter_first_name_call
    \/ enter_last_name_call
    \/ enter_postal_code_call
    \/ click_continue_call
    \/ step_one_click_cancel_call
    \/ click_finish_call
    \/ step_two_click_cancel_call
    \/ click_back_home_call

ActionSpec == ActionSpecInit /\ [][ActionNext]_vars

\* ------------------------------------------- the BasePage helpers
\* carts: the products put in, in the order they were added
Carts ==
    {q \in UNION {[1..k -> Products] : k \in 0..NumProducts} :
        \A i, j \in DOMAIN q : i # j => q[i] # q[j]}

LoginErrors ==
    {"Username is required", "Password is required",
     "Sorry, this user has been locked out.", "Username and password do not match"}

CheckoutErrors ==
    {"Error: First Name is required", "Error: Last Name is required",
     "Error: Postal Code is required"}

\* the states a test can bring the application to with the page objects
ReachableApps ==
    {[screen |-> "login", cart |-> <<>>, error |-> e, products |-> NumProducts, sort |-> SORT_NAME_ASC,
      prices |-> FlatPrices,
      form |-> [EmptyForm EXCEPT !.username = u, !.password = p]] :
        u \in UsernameInputs, p \in PasswordInputs, e \in LoginErrors \cup {""}}
    \cup
    {[screen |-> sc, cart |-> c, error |-> "", products |-> NumProducts, sort |-> SORT_NAME_ASC,
      prices |-> FlatPrices,
      form |-> EmptyForm] :
        sc \in {"inventory", "cart", "step_two"}, c \in Carts}
    \cup
    {[screen |-> "step_one", cart |-> c, error |-> e, products |-> NumProducts, sort |-> SORT_NAME_ASC,
      prices |-> FlatPrices,
      form |-> [EmptyForm EXCEPT !.first = f, !.last = l, !.postal = z]] :
        c \in Carts, e \in CheckoutErrors \cup {""},
        f \in FirstNameInputs, l \in LastNameInputs, z \in PostalCodeInputs}
    \cup
    {[screen |-> "complete", cart |-> <<>>, error |-> "", products |-> NumProducts, sort |-> SORT_NAME_ASC,
      prices |-> FlatPrices,
      form |-> EmptyForm]}

HelperSpecInit ==
    /\ settings = DefaultSettings
    /\ FixtureInit
    /\ CredInit
    /\ ProcessInit
    /\ app \in ReachableApps
    /\ last = NoLast

\* Optional[int] arguments a caller passes as timeout
TimeoutInputs == {None, Some(0), Some(1), Some(2000)}

SelectorInputs == {SHOPPING_CART_BADGE, ERROR_MESSAGE, CHECKOUT_BUTTON, RemoveButton(1)}

\* a test calls a helper or probe with timeout argument t; r is what it did
HelperCall(method, t, r) ==
    /\ app' = r.app
    /\ last' = [method |-> method, index |-> 0, count |-> 0, steps |-> 1,
                raised |-> r.raised, calls |-> r.calls, ret |-> r.ret,
                timeout |-> t, arg |-> <<>>]
    /\ UNCHANGED <<settings, nonActionVars>>

is_visible_call ==
    \E sel \in SelectorInputs, t \in TimeoutInputs, drv \in WaitDrv :
        HelperCall("BasePage.is_visible", t, BasePage_is_visible(app, settings, sel, t, drv))

is_hidden_call ==
    \E sel \in SelectorInputs, t \in TimeoutInputs, drv \in WaitDrv :
        HelperCall("BasePage.is_hidden", t, BasePage_is_hidden(app, settings, sel, t, drv))

login_is_loaded_call ==
    HelperCall("LoginPage.is_loaded", None, LoginPage_is_loaded(app))

inventory_is_loaded_call ==
    \E drv \in WaitDrv :
        HelperCall("InventoryPage.is_loaded", None, InventoryPage_is_loaded(app, settings, drv))

cart_is_loaded_call ==
    HelperCall("CartPage.is_loaded", None, CartPage_is_loaded(app))

step_one_is_loaded_call ==
    HelperCall("CheckoutStepOnePage.is_loaded", None, CheckoutStepOnePage_is_loaded(app))

step_two_is_loaded_call ==
    HelperCall("CheckoutStepTwoPage.is_loaded", None, CheckoutStepTwoPage_is_loaded(app))

complete_is_loaded_call ==
    HelperCall("CheckoutCompletePage.is_loaded", None, CheckoutCompletePage_is_loaded(app))

is_error_displayed_call ==
    \E drv \in WaitDrv :
        HelperCall("CheckoutStepOnePage.is_error_displayed", None,
                   CheckoutStepOnePage_is_error_displayed(app, settings, drv))

get_error_message_call ==
    \E drv \in Drv :
        HelperCall("CheckoutStepOnePage.get_error_message", None,
                   CheckoutStepOnePage_get_error_message(app, settings, drv))

HelperNext ==
    \/ is_error_displayed_call
    \/ get_error_message_call
    \/ is_visible_call
    \/ is_hidden_call
    \/ login_is_loaded_call
    \/ inventory_is_loaded_call
    \/ cart_is_loaded_call
    \/ step_one_is_loaded_call
    \/ step_two_is_loaded_call
    \/ complete_is_loaded_call

HelperSpec == HelperSpecInit /\ [][HelperNext]_vars

\* --------------------------------- the helpers that take a timeout
\* one application state per screen
TimeoutApps == {a \in ReachableApps : Len(a.cart) <= 1 /\ a.error = "" /\ a.form = EmptyForm}

TimeoutSpecInit ==
    /\ settings = DefaultSettings
    /\ FixtureInit
    /\ CredInit
    /\ ProcessInit
    /\ app \in TimeoutApps
    /\ last = NoLast

click_call ==
    \E sel \in {LOGIN_BUTTON, CHECKOUT_BUTTON}, t \in TimeoutInputs, drv \in Drv :
        HelperCall("BasePage.click", t, BasePage_click(app, settings, sel, t, drv))

fill_call ==
    \E sel \in {USERNAME_INPUT, FIRST_NAME_INPUT}, t \in TimeoutInputs, drv \in Drv :
        HelperCall("BasePage.fill", t, BasePage_fill(app, settings, sel, "John", t, drv))

get_text_call ==
    \E sel \in {SHOPPING_CART_BADGE, ERROR_MESSAGE}, t \in TimeoutInputs, drv \in Drv :
        HelperCall("BasePage.get_text", t, BasePage_get_text(app, settings, sel, t, drv))

get_attribute_call ==
    \E sel \in {USERNAME_INPUT, CHECKOUT_BUTTON}, t \in TimeoutInputs, drv \in Drv :
        HelperCall("BasePage.get_attribute", t,
                   BasePage_get_attribute(app, settings, sel, "placeholder", t, drv))

wait_for_selector_call ==
    \E sel \in {SHOPPING_CART_BADGE, LOGIN_BUTTON}, state \in {"visible", "hidden"},
       t \in TimeoutInputs, drv \in WaitDrv :
        HelperCall("BasePage.wait_for_selector", t,
                   BasePage_wait_for_selector(app, settings, sel, state, t, drv))

wait_for_url_call ==
    \E sc \in {"inventory", "cart"}, t \in TimeoutInputs, drv \in Drv :
        HelperCall("BasePage.wait_for_url", t,
                   BasePage_wait_for_url(app, settings, UrlPath[sc], t, drv))

hover_call ==
    \E sel \in {LOGIN_BUTTON, CHECKOUT_BUTTON}, t \in TimeoutInputs, drv \in Drv :
        HelperCall("BasePage.hover", t, BasePage_hover(app, settings, sel, t, drv))

TimeoutNext ==
    \/ click_call
    \/ fill_call
    \/ get_text_call
    \/ get_attribute_call
    \/ is_visible_call
    \/ is_hidden_call
    \/ wait_for_selector_call
    \/ wait_for_url_call
    \/ hover_call

TimeoutSpec == TimeoutSpecInit /\ [][TimeoutNext]_vars

\* ------------------------------------- the operations that take a name
\* the inventory and the cart screen with every cart
SlugApps == {a \in ReachableApps : a.screen \in {"inventory", "cart"}}

SlugSpecInit ==
    /\ settings = DefaultSettings
    /\ FixtureInit
    /\ CredInit
    /\ ProcessInit
    /\ app \in SlugApps
    /\ last = NoLast

\* product names handed to the operations: the six of the demo catalog, one
\* with two spaces in a row, one that is a slug already, the empty one
NameInputs ==
    {ProductName[p] : p \in DOMAIN ProductName}
    \cup {<<"A", " ", " ", "b">>, <<"m", "u", "g", "-", "1">>, <<>>}

\* a test calls an operation with a product name; r is what it did
NameCall(method, name, r, ret) ==
    /\ app' = r.app
    /\ last' = [method |-> method, index |-> 0, count |-> 0, steps |-> 1,
                raised |-> r.raised, calls |-> r.calls, ret |-> ret,
                timeout |-> None, arg |-> name]
    /\ UNCHANGED <<settings, nonActionVars>>

add_by_name ==
    \E n \in NameInputs, drvs \in Drvs(1) :
        NameCall("InventoryPage.add_product_to_cart_by_name", n,
                 Run(app, settings, InventoryPage_add_product_to_cart_by_name(n), drvs), <<>>)

remove_by_name ==
    \E n \in NameInputs, drvs \in Drvs(1) :
        NameCall("InventoryPage.remove_product_from_cart_by_name", n,
                 Run(app, settings, InventoryPage_remove_product_from_cart_by_name(n), drvs),
                 <<>>)

is_product_in_cart_call ==
    \E n \in NameInputs, drv \in WaitDrv :
        LET r == InventoryPage_is_product_in_cart(app, settings, n, drv)
        IN  NameCall("InventoryPage.is_product_in_cart", n, r, r.ret)

cart_remove_by_name ==
    \E n \in NameInputs, drvs \in Drvs(1) :
        NameCall("CartPage.remove_item_by_name", n,
                 Run(app, settings, CartPage_remove_item_by_name(n), drvs), <<>>)

is_cart_badge_visible_call ==
    \E drv \in WaitDrv :
        LET r == InventoryPage_is_cart_badge_visible(app, settings, drv)
        IN  NameCall("InventoryPage.is_cart_badge_visible", <<>>, r, r.ret)

get_cart_item_count_call ==
    \E drv \in WaitDrv, drv2 \in Drv :
        LET r == InventoryPage_get_cart_item_count(app, settings, drv, drv2)
        IN  NameCall("InventoryPage.get_cart_item_count", <<>>, r, r.ret)

SlugNext ==
    \/ add_by_name
    \/ remove_by_name
    \/ is_product_in_cart_call
    \/ cart_remove_by_name
    \/ is_cart_badge_visible_call
    \/ get_cart_item_count_call

SlugSpec == SlugSpecInit /\ [][SlugNext]_vars

\* ------------------------------------- adding by index, one after another
\* the inventory page of the whole catalog right after login
LoopSpecInit ==
    /\ settings = DefaultSettings
    /\ FixtureInit
    /\ CredInit
    /\ ProcessInit
    /\ app = [screen |-> "inventory", cart |-> <<>>, form |-> EmptyForm, error |-> "",
              products |-> CatalogSize, sort |-> SORT_NAME_ASC,
      prices |-> FlatPrices]
    /\ last = NoLast

\* a logged-in test calls add_all_products_to_cart
add_all_products_to_cart_call ==
    \E drv \in Drv :
        LET r == InventoryPage_add_all_products_to_cart(app, drv)
        IN  /\ app' = r.app
            /\ last' = [NoLast EXCEPT !.method = "InventoryPage.add_all_products_to_cart",
                                      !.count = Len(app.cart),
                                      !.steps = InventoryPage_get_product_count(app),
                                      !.raised = r.raised, !.calls = r.calls]
            /\ UNCHANGED <<settings, nonActionVars>>

\* the first k rounds of test_cart_badge_count_accuracy, on the empty cart
\* the logged_in_user fixture leaves
count_accuracy_rounds ==
    /\ app.screen = "inventory"
    /\ app.cart = <<>>
    /\ \E k \in 1..5, drv \in Drv :
         LET r == CountAccuracyFrom(app, settings, 1, k, drv)
         IN  /\ app' = r.app
             /\ last' = [NoLast EXCEPT !.method = "test_cart_badge_count_accuracy",
                                       !.index = k, !.steps = k,
                                       !.raised = r.raised, !.ret = r.ret]
             /\ UNCHANGED <<settings, nonActionVars>>

LoopNext ==
    \/ add_all_products_to_cart_call
    \/ count_accuracy_rounds
    \/ add_product_to_cart_by_index_call
    \/ get_cart_item_count_call

LoopSpec == LoopSpecInit /\ [][LoopNext]_vars

\* ------------------------------------------- the order summary's amounts
\* the amounts, in cents, the overview step may show
MaxSubtotal == 6
MaxTax == 2
MaxOff == 2

Subtotals == 0..MaxSubtotal \cup {2999}
Taxes == 0..MaxTax \cup {240}
Totals(sum) == {t \in (sum - MaxOff)..(sum + MaxOff) : t >= 0}

\* a test on the overview step, with one product in the cart
TotalSpecInit ==
    /\ settings = DefaultSettings
    /\ FixtureInit
    /\ CredInit
    /\ ProcessInit
    /\ \E st \in Subtotals, tx \in Taxes :
         \E tt \in Totals(st + tx) :
            app = [screen |-> "step_two", cart |-> <<1>>, form |-> EmptyForm,
                   error |-> "", products |-> NumProducts, sort |-> SORT_NAME_ASC,
      prices |-> FlatPrices,
                   summary |-> [subtotal |-> st, tax |-> tx, total |-> tt]]
    /\ last = NoLast

get_subtotal_call ==
    \E drv \in Drv :
        HelperCall("CheckoutStepTwoPage.get_subtotal", None,
                   CheckoutStepTwoPage_get_subtotal(app, settings, drv))

get_tax_call ==
    \E drv \in Drv :
        HelperCall("CheckoutStepTwoPage.get_tax", None,
                   CheckoutStepTwoPage_get_tax(app, settings, drv))

get_total_call ==
    \E drv \in Drv :
        HelperCall("CheckoutStepTwoPage.get_total", None,
                   CheckoutStepTwoPage_get_total(app, settings, drv))

verify_total_calculation_call ==
    \E drvs \in Drvs(3) :
        HelperCall("CheckoutStepTwoPage.verify_total_calculation", None,
                   CheckoutStepTwoPage_verify_total_calculation(app, settings, drvs))

TotalNext ==
    \/ get_subtotal_call
    \/ get_tax_call
    \/ get_total_call
    \/ verify_total_calculation_call

TotalSpec == TotalSpecInit /\ [][TotalNext]_vars

\* ------------------------------------------------ sorting the inventory
\* the prices, in cents, a catalog may show
NumPrices == 2
PriceInputs == {100 * k - 1 : k \in 1..NumPrices}

\* the option values a test may pass: the four of the dropdown and one it
\* does not have
SortInputs == SortOptions \cup {"price"}

\* the inventory page of the whole catalog right after login, in the
\* default order
SortSpecInit ==
    /\ settings = DefaultSettings
    /\ FixtureInit
    /\ CredInit
    /\ ProcessInit
    /\ \E prices \in [1..CatalogSize -> PriceInputs] :
         app = [screen |-> "inventory", cart |-> <<>>, form |-> EmptyForm,
                error |-> "", products |-> CatalogSize, sort |-> SORT_NAME_ASC,
                prices |-> prices]
    /\ last = NoLast

sort_products_call ==
    \E o \in SortInputs, drv \in Drv :
        NameCall("InventoryPage.sort_products", o,
                 InventoryPage_sort_products(app, settings, o, drv), <<>>)

get_current_sort_value_call ==
    \E drv \in Drv :
        LET r == InventoryPage_get_current_sort_value(app, settings, drv)
        IN  NameCall("InventoryPage.get_current_sort_value", <<>>, r, r.ret)

get_all_product_names_call ==
    LET r == InventoryPage_get_all_product_names(app)
    IN  NameCall("InventoryPage.get_all_product_names", <<>>, r, r.ret)

get_all_product_prices_call ==
    LET r == InventoryPage_get_all_product_prices(app)
    IN  NameCall("InventoryPage.get_all_product_prices", <<>>, r, r.ret)

get_product_count_call ==
    NameCall("InventoryPage.get_product_count", <<>>,
             BasePage_get_element_count(app, INVENTORY_ITEM),
             <<InventoryPage_get_product_count(app)>>)

SortNext ==
    \/ sort_products_call
    \/ get_current_sort_value_call
    \/ get_all_product_names_call
    \/ get_all_product_prices_call
    \/ get_product_count_call

SortSpec == SortSpecInit /\ [][SortNext]_vars

\* ------------------------------------ the cart, read from both pages
\* a catalog in which every product has a price of its own, in cents
StepPrices == [p \in 1..CatalogSize |-> 100 * p - 1]

\* the inventory page right after login, with an empty cart
CartSpecInit ==
    /\ settings = DefaultSettings
    /\ FixtureInit
    /\ CredInit
    /\ ProcessInit
    /\ app = [screen |-> "inventory", cart |-> <<>>, form |-> EmptyForm,
              error |-> "", products |-> NumProducts, sort |-> SORT_NAME_ASC,
              prices |-> StepPrices]
    /\ last = NoLast

\* a test calls a query that takes no argument; r is what it did
QueryCall(method, r) == NameCall(method, <<>>, r, r.ret)

cart_get_cart_item_count_call ==
    QueryCall("CartPage.get_cart_item_count", CartPage_get_cart_item_count(app))

get_all_item_names_call ==
    QueryCall("CartPage.get_all_item_names", CartPage_get_all_item_names(app))

get_total_price_call ==
    QueryCall("CartPage.get_total_price", CartPage_get_total_price(app))

get_cart_badge_count_call ==
    \E drv \in WaitDrv, drv2 \in Drv :
        QueryCall("CartPage.get_cart_badge_count",
                  CartPage_get_cart_badge_count(app, settings, drv, drv2))

CartNext ==
    \/ add_product_to_cart_by_name_call
    \/ remove_product_from_cart_by_name_call
    \/ remove_item_by_name_call
    \/ add_product_to_cart_by_index_call
    \/ remove_item_by_index_call
    \/ click_shopping_cart_call
    \/ continue_shopping_call
    \/ get_all_product_names_call
    \/ get_all_product_prices_call
    \/ get_cart_item_count_call
    \/ cart_get_cart_item_count_call
    \/ get_all_item_names_call
    \/ get_total_price_call
    \/ get_cart_badge_count_call

CartSpec == CartSpecInit /\ [][CartNext]_vars

\* ------------------------------------ tests run by parallel workers
\* Each worker process has its own Playwright session, so its own handle
\* space: the test's Context is handle 1 and its Page handle 2.
ParHandles(t) == new_page(new_context(<<>>, t), 1, t)

\* the files the artifact calls of a block write, for test t: a screenshot
\* or a trace archive that the driver wrote
Writes(blockCalls, t) ==
    LET w == SelectSeq(blockCalls,
                       LAMBDA c : c.op \in {"screenshot", "tracing.stop"} /\ c.ok)
    IN  [k \in DOMAIN w |-> [path |-> w[k].path, by |-> t]]

\* every worker has set its test up and is about to run its body
ParallelSpecInit ==
    /\ settings \in {[DefaultSettings EXCEPT !.screenshot_on_failure = sf,
                                             !.trace_on_failure = tf] :
                        sf \in BOOLEAN, tf \in BOOLEAN}
    /\ FixtureInit
    /\ lookup = NoLookup
    /\ produced = NoProduced
    /\ fakerN = 0
    /\ ActionInit
    /\ fs = <<>>
    /\ loggers = NoLoggers
    /\ runs = <<>>
    /\ par = [t \in Tests |->
                 [pc |-> "call", rep |-> [NoReport EXCEPT !.setup = "passed"],
                  handles |-> ParHandles(t)]]

\* the body of test t passes or fails; pytest_runtest_makereport sets rep_call
par_test_body(t) ==
    /\ par[t].pc = "call"
    /\ \E outcome \in {"passed", "failed"} :
         par' = [par EXCEPT ![t].pc = "page_teardown",
                            ![t].rep = pytest_runtest_makereport(@, "call", outcome)]
    /\ UNCHANGED <<settings, nonProcessVars, fs, loggers, runs>>

\* the page finalizer of test t: the screenshot block, then page.close()
par_page_teardown(t) ==
    /\ par[t].pc = "page_teardown"
    /\ \E drv \in {"ok", "mkdir_raises", "screenshot_raises"} :
         LET blk == screenshot_block(par[t].rep, settings, NodeName(t), 2,
                                     par[t].handles, drv)
         IN  /\ fs' = fs \o Writes(blk.calls, t)
             /\ par' = [par EXCEPT ![t].pc = "context_teardown",
                                    ![t].handles = close(@, 2)]
    /\ UNCHANGED <<settings, nonProcessVars, loggers, runs>>

\* the context finalizer of test t: tracing.stop, then context.close()
par_context_teardown(t) ==
    /\ par[t].pc = "context_teardown"
    /\ \E drv \in {"ok", "raises"} :
         LET blk == tracing_stop_block(settings, 1, par[t].handles, drv)
         IN  /\ fs' = fs \o Writes(blk.calls, t)
             /\ par' = [par EXCEPT ![t].pc = "done", ![t].handles = close(@, 1)]
    /\ UNCHANGED <<settings, nonProcessVars, loggers, runs>>

ParallelNext ==
    \E t \in Tests :
        \/ par_test_body(t)
        \/ par_page_teardown(t)
        \/ par_context_teardown(t)

ParallelSpec == ParallelSpecInit /\ [][ParallelNext]_vars

\* ------------------------------------------- runs of the data generator
\* two runs of the suite, each a process with its own shared Faker
\* generator, make the same generator calls one after the other
NumRuns == 2
MaxCalls == 4
Runs == 1..NumRuns

\* what an unseeded generator starts from: the operating system's entropy,
\* different in every process
Entropy(r) == FakerSeed + r

\* Faker(locale): the shared generator of a process before any seeding
Faker_new(r) == [seed |-> Entropy(r), drawn |-> <<>>]

\* Faker.seed(seed): the shared generator restarts from the seed
Faker_seed(f, seed) == [seed |-> seed, drawn |-> <<>>]

\* self.faker.<provider>(): the value is a function of the seed and of the
\* draws made since seeding; the generator advances
Faker_call(f, provider) ==
    [value |-> [seed |-> f.seed, provider |-> provider, after |-> f.drawn],
     faker |-> [f EXCEPT !.drawn = Append(@, provider)]]

\* a constructor that leaves the generator unseeded
TestDataGenerator_init_unseeded(r) == Faker_new(r)

\* TestDataGenerator.__init__: Faker(locale), then Faker.seed(42)
TestDataGenerator_init(r) == Faker_seed(Faker_new(r), FakerSeed)

CheckoutData(first_name, last_name, postal_code) ==
    [first_name |-> first_name, last_name |-> last_name, postal_code |-> postal_code]

\* TestDataGenerator.generate_checkout_data: first_name, last_name and
\* postcode are drawn in this order
TestDataGenerator_generate_checkout_data(f) ==
    LET a == Faker_call(f, "first_name")
        b == Faker_call(a.faker, "last_name")
        c == Faker_call(b.faker, "postcode")
    IN  [ret |-> CheckoutData(a.value, b.value, c.value), faker |-> c.faker]

\* TestDataGenerator.generate_invalid_credentials: five fixed records, then
\* one with a drawn email and a drawn password
TestDataGenerator_generate_invalid_credentials(f) ==
    LET a == Faker_call(f, "email")
        b == Faker_call(a.faker, "password")
    IN  [ret |-> SubSeq(generate_invalid_credentials(0), 1, 5)
                 \o <<UserCredentials(a.value, b.value, "random")>>,
         faker |-> b.faker]

GenSpecInit ==
    /\ settings = DefaultSettings
    /\ FixtureInit
    /\ CredInit
    /\ ActionInit
    /\ fs = <<>>
    /\ par = <<>>
    /\ loggers = NoLoggers
    /\ runs = [r \in Runs |-> [faker |-> TestDataGenerator_init(r), out |-> <<>>]]

GenCall(method, result(_)) ==
    /\ \A r \in Runs : Len(runs[r].out) < MaxCalls
    /\ runs' = [r \in Runs |->
                  LET res == result(runs[r].faker)
                  IN  [faker |-> res.faker,
                       out |-> Append(runs[r].out, [method |-> method, ret |-> res.ret])]]
    /\ UNCHANGED <<settings, fixtureVars, credVars, actionVars, fs, par, loggers>>

\* the checkout_data fixture or a test calls test_data.generate_checkout_data()
generate_checkout_data_call ==
    GenCall("generate_checkout_data", TestDataGenerator_generate_checkout_data)

\* a parametrize list or a test calls test_data.generate_invalid_credentials()
gen_invalid_credentials_call ==
    GenCall("generate_invalid_credentials",
            TestDataGenerator_generate_invalid_credentials)

\* a TestDataGenerator is constructed again in the process
TestDataGenerator_call ==
    /\ \A r \in Runs : Len(runs[r].out) < MaxCalls
    /\ runs' = [r \in Runs |->
                  [faker |-> TestDataGenerator_init(r),
                   out |-> Append(runs[r].out,
                                  [method |-> "TestDataGenerator", ret |-> <<>>])]]
    /\ UNCHANGED <<settings, fixtureVars, credVars, actionVars, fs, par, loggers>>

GenNext ==
    \/ generate_checkout_data_call
    \/ gen_invalid_credentials_call
    \/ TestDataGenerator_call

GenSpec == GenSpecInit /\ [][GenNext]_vars

\* ------------------------------------------- the helper fixtures' setup
\* the page of a new Context before any navigation: about:blank, cart empty
BlankApp ==
    [screen |-> "blank", cart |-> <<>>, form |-> EmptyForm, error |-> "",
     products |-> NumProducts, sort |-> SORT_NAME_ASC, prices |-> FlatPrices]

\* the screen the application serves at a url; the bare origin is the
\* login screen
ScreenAt(url) ==
    {sc \in DOMAIN UrlPath : url = BaseUrl \o UrlPath[sc] \/ (url = BaseUrl /\ sc = "login")}

\* page.goto(url, timeout=..., wait_until="domcontentloaded")
page_goto(a, url, drv) ==
    IF drv = "ok" /\ ScreenAt(url) # {}
    THEN [app |-> [a EXCEPT !.screen = CHOOSE sc \in ScreenAt(url) : TRUE,
                            !.form = EmptyForm, !.error = ""],
          raised |-> "none"]
    ELSE [app |-> a, raised |-> "TimeoutError"]

\* BasePage.navigate_to
BasePage_navigate_to(a, s, url, drv) ==
    LET r == page_goto(a, url, drv)
    IN  [app |-> r.app, raised |-> r.raised, ret |-> <<>>,
         calls |-> <<DriverCall("goto", url, "", Some(s.timeout), r.raised)>>]

\* LoginPage.navigate: self.navigate_to(self.url), url = settings.base_url
LoginPage_navigate(a, s, drv) == BasePage_navigate_to(a, s, BaseUrl, drv)

\* assert cond, message
PyAssert(a, cond) == [app |-> a, raised |-> IF cond THEN "none" ELSE "AssertionError"]

\* a logged_in_user without its assert
logged_in_user_unchecked(a, s, drvs, w) ==
    LET c == Settings_get_user_credentials(s, "standard")
        nav == LoginPage_navigate(a, s, drvs[1])
        login == Run(nav.app, s, LoginPage_login(c.username, c.password), Tail(drvs))
    IN  IF nav.raised # "none" THEN [app |-> nav.app, raised |-> nav.raised]
        ELSE [app |-> login.app, raised |-> login.raised]

\* logged_in_user up to its yield: the standard user's credentials,
\* login_page.navigate(), login_page.login(username, password),
\* assert inventory_page.is_loaded()
logged_in_user_setup(a, s, drvs, w) ==
    LET c == Settings_get_user_credentials(s, "standard")
        nav == LoginPage_navigate(a, s, drvs[1])
        login == Run(nav.app, s, LoginPage_login(c.username, c.password), Tail(drvs))
    IN  IF nav.raised # "none" THEN [app |-> nav.app, raised |-> nav.raised]
        ELSE IF login.raised # "none" THEN [app |-> login.app, raised |-> login.raised]
        ELSE PyAssert(login.app, InventoryPage_is_loaded(login.app, s, w).ret[1])

\* cart_with_items up to its yield: the first two names the inventory
\* lists, add_product_to_cart_by_name for each, click_shopping_cart(),
\* assert cart_page.is_loaded()
cart_with_items_setup(a, s, drvs) ==
    LET names == InventoryPage_get_all_product_names(a).ret[1]
        product_names == SubSeq(names, 1, IF Len(names) < 2 THEN Len(names) ELSE 2)
        body == [k \in DOMAIN product_names |->
                    InventoryPage_add_product_to_cart_by_name(product_names[k])[1]]
                \o InventoryPage_click_shopping_cart
        r == Run(a, s, body, drvs)
    IN  IF r.raised # "none" THEN [app |-> r.app, raised |-> r.raised]
        ELSE PyAssert(r.app, CartPage_is_loaded(r.app).ret[1])

\* the users the environment may configure as the standard user
StandardUserInputs ==
    {DefaultSettings.standard_user, DefaultSettings.locked_user, "nobody"}

SetupSpecInit ==
    /\ settings \in {[DefaultSettings EXCEPT !.standard_user = u] :
                        u \in StandardUserInputs}
    /\ pc = "setup"
    /\ cur = 1
    /\ pw = "none"
    /\ browser = "none"
    /\ launches = 0
    /\ closes = 0
    /\ handles = <<>>
    /\ cache = NoCache
    /\ objs = NoObjs
    /\ helper = "none"
    /\ rep = NoReport
    /\ calls = <<>>
    /\ warnings = {}
    /\ tdError = FALSE
    /\ finished = <<>>
    /\ CredInit
    /\ ProcessInit
    /\ app = BlankApp
    /\ last = NoLast

\* what a helper fixture did: r is its outcome; an exception in a fixture
\* is a failed setup and pytest goes on to the teardown
HelperSetup(name, r) ==
    /\ app' = r.app
    /\ last' = [NoLast EXCEPT !.method = name, !.raised = r.raised]
    /\ IF r.raised = "none"
       THEN helper' = name /\ UNCHANGED <<pc, rep>>
       ELSE SetupFailed /\ UNCHANGED helper
    /\ UNCHANGED <<settings, credVars, processVars, cur, pw, browser, launches, closes,
                   handles, cache, objs, calls, warnings, tdError, finished>>

logged_in_user_fixture ==
    /\ pc = "setup"
    /\ helper = "none"
    /\ \E drvs \in Drvs(4), w \in WaitDrv :
         HelperSetup("logged_in_user", logged_in_user_setup(app, settings, drvs, w))

cart_with_items_fixture ==
    /\ pc = "setup"
    /\ helper = "logged_in_user"
    /\ \E drvs \in Drvs(3) :
         HelperSetup("cart_with_items", cart_with_items_setup(app, settings, drvs))

\* the requested helper fixture has yielded: the setup phase passed and the
\* test body starts
body_starts ==
    /\ pc = "setup"
    /\ helper \in {"logged_in_user", "cart_with_items"}
    /\ rep' = pytest_runtest_makereport(rep, "setup", "passed")
    /\ pc' = "call"
    /\ last' = NoLast
    /\ UNCHANGED <<settings, credVars, processVars, app, cur, pw, browser, launches,
                   closes, handles, cache, objs, helper, calls, warnings, tdError,
                   finished>>

\* the test body acts on the pages
body_acts ==
    /\ pc = "call"
    /\ \/ add_product_to_cart_by_name_call
       \/ remove_product_from_cart_by_name_call
       \/ remove_item_by_name_call
       \/ click_shopping_cart_call
       \/ continue_shopping_call

\* the test body returns or raises
body_ends ==
    /\ pc = "call"
    /\ \E outcome \in {"passed", "failed"} :
         rep' = pytest_runtest_makereport(rep, "call", outcome)
    /\ pc' = "teardown"
    /\ UNCHANGED <<settings, credVars, processVars, actionVars, cur, pw, browser,
                   launches, closes, handles, cache, objs, helper, calls, warnings,
                   tdError, finished>>

SetupNext ==
    \/ logged_in_user_fixture
    \/ cart_with_items_fixture
    \/ body_starts
    \/ body_acts
    \/ body_ends

SetupSpec == SetupSpecInit /\ [][SetupNext]_vars

\* ---------------------------------------------------- the removal loops
\* one round of a while loop: done when the test was false and the method
\* returned, raised when the body raised, clicked when a button was clicked
Round(r, done) ==
    [app |-> r.app, raised |-> r.raised, done |-> done, clicked |-> r.calls # <<>>]

\* a remove_all_items whose body removes the second item
CartPage_remove_all_items_second(a, drv) ==
    IF CartPage_get_cart_item_count(a).ret[1] > 0
    THEN Round(CartPage_remove_item_by_index(a, 1, drv), FALSE)
    ELSE Round([app |-> a, raised |-> "none", calls |-> <<>>], TRUE)

\* CartPage.remove_all_items, one round:
\* while self.get_cart_item_count() > 0: self.remove_item_by_index(0)
CartPage_remove_all_items(a, drv) ==
    IF CartPage_get_cart_item_count(a).ret[1] > 0
    THEN Round(CartPage_remove_item_by_index(a, 0, drv), FALSE)
    ELSE Round([app |-> a, raised |-> "none", calls |-> <<>>], TRUE)

\* InventoryPage.remove_all_products_from_cart, one round:
\* while self.get_element_count(self.REMOVE_BUTTON) > 0:
\*     self.page.locator(self.REMOVE_BUTTON).first.click()
InventoryPage_remove_all_products_from_cart(a, drv) ==
    IF BasePage_get_element_count(a, REMOVE_BUTTON).ret[1] > 0
    THEN Round(ClickNth(a, All(a, REMOVE_BUTTON), 0, drv), FALSE)
    ELSE Round([app |-> a, raised |-> "none", calls |-> <<>>], TRUE)

\* the carts the loops are called on: the first n products, added in
\* catalog order or in the reverse order
RemoveCarts ==
    {[k \in 1..n |-> k] : n \in 0..CatalogSize}
    \cup {[k \in 1..n |-> n + 1 - k] : n \in 0..CatalogSize}

\* a test body about to call one of the loops, on the inventory page, the
\* cart page or the checkout overview
RemoveSpecInit ==
    /\ settings = DefaultSettings
    /\ pc = "call"
    /\ cur = 1
    /\ pw = "none"
    /\ browser = "none"
    /\ launches = 0
    /\ closes = 0
    /\ handles = <<>>
    /\ cache = NoCache
    /\ objs = NoObjs
    /\ helper = "logged_in_user"
    /\ rep = [NoReport EXCEPT !.setup = "passed"]
    /\ calls = <<>>
    /\ warnings = {}
    /\ tdError = FALSE
    /\ finished = <<>>
    /\ CredInit
    /\ ProcessInit
    /\ \E sc \in {"inventory", "cart", "step_two"}, cart \in RemoveCarts :
         app = [screen |-> sc, cart |-> cart, form |-> EmptyForm, error |-> "",
                products |-> CatalogSize, sort |-> SORT_NAME_ASC, prices |-> FlatPrices]
    /\ last = NoLast

\* one round of the loop the body called: last.count is the number of items
\* at the call, last.steps the number of clicks that returned; the body
\* ends when the method returns or raises
LoopRound(method, r) ==
    /\ pc = "call"
    /\ last.method \in {"none", method}
    /\ app' = r.app
    /\ last' = [last EXCEPT !.method = method,
                            !.count = IF last.method = "none" THEN Len(app.cart) ELSE @,
                            !.steps = IF r.clicked /\ r.raised = "none" THEN @ + 1 ELSE @,
                            !.raised = r.raised]
    /\ IF r.done \/ r.raised # "none"
       THEN /\ pc' = "teardown"
            /\ rep' = pytest_runtest_makereport(rep, "call",
                          IF r.raised = "none" THEN "passed" ELSE "failed")
       ELSE UNCHANGED <<pc, rep>>
    /\ UNCHANGED <<settings, credVars, processVars, cur, pw, browser, launches, closes,
                   handles, cache, objs, helper, calls, warnings, tdError, finished>>

remove_all_items_round ==
    \E drv \in Drv :
        LoopRound("CartPage.remove_all_items", CartPage_remove_all_items(app, drv))

remove_all_products_from_cart_round ==
    \E drv \in Drv :
        LoopRound("InventoryPage.remove_all_products_from_cart",
                  InventoryPage_remove_all_products_from_cart(app, drv))

RemoveNext ==
    \/ remove_all_items_round
    \/ remove_all_products_from_cart_round

\* the interpreter keeps running the loop while the method has not returned
RemoveSpec == RemoveSpecInit /\ [][RemoveNext]_vars /\ WF_vars(RemoveNext)

\* ------------------------------------------------------ utils/logger.py
\* logging.getLogger(name): one Logger object per name, the root logger for
\* the empty name and for "root"
logging_getLogger(name) == IF name \in {"", "root"} THEN "root" ELSE name

console_handler == [kind |-> "console", path |-> ""]
file_handler(name) == [kind |-> "file", path |-> "logs/" \o name \o ".log"]

\* the handlers of a Logger object, none for one not created yet
HandlersOf(lg, logger) ==
    IF logger \in DOMAIN lg.handlers THEN lg.handlers[logger] ELSE <<>>

\* a get_logger without logger.handlers.clear()
TestLogger_get_logger_noclear(lg, name, fsok) ==
    IF name \in DOMAIN lg.registry
    THEN [lg EXCEPT !.returned = [name |-> name, logger |-> lg.registry[name],
                                   raised |-> "none"]]
    ELSE LET logger == logging_getLogger(name)
             withConsole == Append(HandlersOf(lg, logger), console_handler)
         IN  IF fsok
             THEN [created  |-> lg.created \cup {logger},
                   handlers |-> (logger :> Append(withConsole, file_handler(name)))
                                @@ lg.handlers,
                   registry |-> (name :> logger) @@ lg.registry,
                   returned |-> [name |-> name, logger |-> logger, raised |-> "none"]]
             ELSE [created  |-> lg.created \cup {logger},
                   handlers |-> (logger :> withConsole) @@ lg.handlers,
                   registry |-> lg.registry,
                   returned |-> [name |-> name, logger |-> "", raised |-> "OSError"]]

\* TestLogger.get_logger: the cached logger if the name is registered; else
\* logging.getLogger(name), handlers.clear(), the console handler, the log
\* directory and the file handler (fsok: the filesystem lets them be
\* created, else the call raises here), and at last _loggers[name] = logger
TestLogger_get_logger(lg, name, fsok) ==
    IF name \in DOMAIN lg.registry
    THEN [lg EXCEPT !.returned = [name |-> name, logger |-> lg.registry[name],
                                   raised |-> "none"]]
    ELSE LET logger == logging_getLogger(name)
         IN  IF fsok
             THEN [created  |-> lg.created \cup {logger},
                   handlers |-> (logger :> <<console_handler, file_handler(name)>>)
                                @@ lg.handlers,
                   registry |-> (name :> logger) @@ lg.registry,
                   returned |-> [name |-> name, logger |-> logger, raised |-> "none"]]
             ELSE [created  |-> lg.created \cup {logger},
                   handlers |-> (logger :> <<console_handler>>) @@ lg.handlers,
                   registry |-> lg.registry,
                   returned |-> [name |-> name, logger |-> "", raised |-> "OSError"]]

\* get_logger(name=None): the caller's module name for None, and
\* TestLogger.get_logger(name or 'test_framework')
get_logger(lg, name, caller, fsok) ==
    LET n == IF name.some THEN name.v ELSE caller
    IN  TestLogger_get_logger(lg, IF n = "" THEN "test_framework" ELSE n, fsok)

\* the names loggers are asked for: conftest's __name__, a page object's
\* class name, the default, the empty name and the root logger's name
LoggerNameInputs == {"conftest", "LoginPage", "test_framework", "", "root"}

\* the modules that call get_logger
CallerInputs == {"conftest", "pages.base_page"}

LoggerSpecInit ==
    /\ settings = DefaultSettings
    /\ FixtureInit
    /\ CredInit
    /\ ActionInit
    /\ fs = <<>>
    /\ par = <<>>
    /\ runs = <<>>
    /\ loggers = NoLoggers

TestLogger_get_logger_call ==
    /\ \E name \in LoggerNameInputs, fsok \in BOOLEAN :
         loggers' = TestLogger_get_logger(loggers, name, fsok)
    /\ UNCHANGED <<settings, fixtureVars, credVars, actionVars, fs, par, runs>>

get_logger_call ==
    /\ \E name \in {None} \cup {Some(n) : n \in LoggerNameInputs},
          caller \in CallerInputs, fsok \in BOOLEAN :
         loggers' = get_logger(loggers, name, caller, fsok)
    /\ UNCHANGED <<settings, fixtureVars, credVars, actionVars, fs, par, runs>>

LoggerNext ==
    \/ TestLogger_get_logger_call
    \/ get_logger_call

LoggerSpec == LoggerSpecInit /\ [][LoggerNext]_vars






\* ============================================================ claims
ContextsOf(t) == {i \in DOMAIN handles : handles[i].kind = "context" /\ handles[i].test = t}
PagesOf(t) == {i \in DOMAIN handles : handles[i].kind = "page" /\ handles[i].test = t}

\* the page finalizer of the current test has run
PageTornDown ==
    \/ pc = "teardown" /\ cache.page = NoHandle
    \/ pc \in {"between", "session_teardown", "done"} /\ cur >= 1

\* the function-scoped finalizers of the current test have all run
TestTornDown ==
    \/ pc = "teardown" /\ cache = NoCache
    \/ pc \in {"between", "session_teardown", "done"} /\ cur >= 1

HasCall(op) == \E k \in DOMAIN calls : calls[k].op = op
FailedCall(op) == \E k \in DOMAIN calls : calls[k].op = op /\ ~calls[k].ok

\* ---- C1
C1_Hierarchy ==
    \A i \in DOMAIN handles :
        handles[i].state = "open" =>
            /\ browser = "open"
            /\ handles[i].kind = "page" => handles[handles[i].parent].state = "open"

C1_CloseStep ==
    /\ \A i \in DOMAIN handles :
          (handles[i].kind = "context" /\ handles[i].state = "open"
              /\ handles'[i].state = "closed")
          => \A j \in DOMAIN handles :
                 handles[j].parent = i => handles[j].state = "closed"
    /\ (browser = "open" /\ browser' = "closed")
          => \A i \in DOMAIN handles : handles[i].state = "closed"

\* C1: in every reachable state of the fixture lifecycle an open Page has an
\* open Context and an open Context has an open Browser; and in every step
\* that closes a Context its Pages are already closed, and in the step that
\* closes the Browser every Context is already closed.
C1_OwnershipTopDown == [](C1_Hierarchy) /\ [][C1_CloseStep]_vars

\* a whole run is over: every test had its context and page, all closed
C1_Witness ==
    /\ pc = "done"
    /\ browser = "closed"
    /\ Len(handles) = 2 * NumTests
    /\ \E k \in DOMAIN calls : calls[k].op = "context.close"

\* ---- C2
SetUpTests == {t \in Tests : t < cur \/ (t = cur /\ pc # "setup")}

\* C2: every test has at most one Context and one Page, exactly one of each
\* once its setup is over; every page object of the current test wraps the
\* page fixture's Page, which is the Page created for this test in the
\* Context created for this test; no Context or Page was handed to the body
\* of a test other than the one it was created for.
C2_OnePagePerTest ==
    /\ \A t \in Tests :
          /\ Cardinality(ContextsOf(t)) <= 1
          /\ Cardinality(PagesOf(t)) <= 1
          /\ t \in SetUpTests =>
                Cardinality(ContextsOf(t)) = 1 /\ Cardinality(PagesOf(t)) = 1
    /\ \A n \in PageObjectNames :
          objs[n] # NoHandle =>
             /\ objs[n] = cache.page
             /\ objs[n] \in PagesOf(cur)
             /\ handles[objs[n]].parent \in ContextsOf(cur)
    /\ \A i \in DOMAIN handles : handles[i].users \subseteq {handles[i].test}

\* the second test's body has run with all six page objects on its page
C2_Witness ==
    /\ cur = NumTests
    /\ pc = "teardown"
    /\ rep.call # "absent"
    /\ \A n \in PageObjectNames : objs[n] # NoHandle /\ handles[objs[n]].users = {cur}
    /\ \A t \in Tests : Cardinality(PagesOf(t)) = 1

\* ---- C3
C3_State ==
    /\ launches <= 1
    /\ closes <= 1
    /\ handles # <<>> => launches = 1
    /\ closes = 1 => launches = 1 /\ Len(finished) = NumTests
    /\ pc = "done" => launches = 1 /\ closes = 1

C3_Step ==
    /\ launches' # launches => handles = <<>>
    /\ closes' # closes =>
          /\ Len(finished) = NumTests
          /\ \A i \in DOMAIN handles : handles[i].state = "closed"

\* C3: over a run the browser is launched at most once and, when the run is
\* over, exactly once; the launch happens while no Context exists yet; the
\* browser is closed exactly once, in a step taken after every test has
\* finished and with every Context already closed.
C3_OneBrowserPerRun == [](C3_State) /\ [][C3_Step]_vars

\* the run is over after NumTests tests, one launch and one close
C3_Witness ==
    /\ pc = "done"
    /\ launches = 1
    /\ closes = 1
    /\ Len(finished) = NumTests
    /\ Cardinality(ContextsOf(NumTests)) = 1

CaptureFailed == FailedCall("mkdir") \/ FailedCall("screenshot")

\* C5: when the directory creation or the screenshot call raised, no finalizer
\* error is recorded, the warning is logged, page.close() was called after the
\* failed call and the Page is closed, and the call report is still failed;
\* and every finished test has a passed teardown report, whatever its capture
\* did.
C5_CaptureFailureTolerated ==
    /\ CaptureFailed =>
          /\ ~tdError
          /\ "Could not capture screenshot" \in warnings
          /\ \E k, m \in DOMAIN calls :
                /\ calls[k].op \in {"mkdir", "screenshot"} /\ ~calls[k].ok
                /\ calls[m].op = "page.close" /\ k < m
          /\ \A i \in PagesOf(cur) : handles[i].state = "closed"
          /\ rep.call = "failed"
          /\ rep.teardown # "failed"
    /\ \A i \in DOMAIN finished : finished[i].teardown = "passed"

\* a test finished after its capture failed
C5_Witness ==
    /\ FailedCall("screenshot")
    /\ rep.teardown = "passed"
    /\ rep.call = "failed"

\* ---- C6
\* C6: with tracing enabled, after tracing.start raised the warning is logged
\* and the Context is still in the fixture cache during setup (handed on);
\* after tracing.stop raised the warning is logged, no finalizer error is
\* recorded and context.close() was called after it; and once a test's
\* finalizers have run, every Context is closed while the Browser is open.
C6_TracingFailureTolerated ==
    /\ FailedCall("tracing.start") =>
          /\ "Could not start tracing" \in warnings
          /\ pc = "setup" => cache.context \in ContextsOf(cur)
          /\ rep.setup = "failed" => PagesOf(cur) # {}
    /\ FailedCall("tracing.stop") =>
          /\ "Could not stop tracing" \in warnings
          /\ ~tdError
          /\ \E k, m \in DOMAIN calls :
                /\ calls[k].op = "tracing.stop" /\ ~calls[k].ok
                /\ calls[m].op = "context.close" /\ k < m
    /\ TestTornDown =>
          \A i \in DOMAIN handles : handles[i].state = "closed"

\* a test ran and finished although both tracing calls raised
C6_Witness ==
    /\ pc = "between"
    /\ browser = "open"
    /\ settings.trace_on_failure
    /\ FailedCall("tracing.start")
    /\ FailedCall("tracing.stop")
    /\ rep.call = "passed"
    /\ \A i \in ContextsOf(cur) : handles[i].state = "closed"
\* ---- C7
\* what the claim says the lookup gives for an input
C7_Expected(u) ==
    CASE u = "standard"    -> settings.standard_user
      [] u = "locked"      -> settings.locked_user
      [] u = "problem"     -> settings.problem_user
      [] u = "performance" -> settings.performance_user
      [] u = "error"       -> settings.error_user
      [] u = "visual"      -> settings.visual_user
      [] OTHER             -> settings.standard_user

\* C7: a Settings.get_user_credentials call never raises; it returns the
\* username configured for the identifier when the input is one of the six,
\* the username configured for standard for any other input, and
\* default_password as the password.
C7_CredentialLookup ==
    lookup # NoLookup =>
        /\ lookup.raised = "none"
        /\ lookup.username = C7_Expected(lookup.user_type)
        /\ lookup.password = settings.default_password

\* an unknown identifier looked up under overridden settings
C7_Witness ==
    /\ lookup.user_type = "admin"
    /\ lookup.username = "qa_standard"
    /\ lookup.password = "qa_secret"
    /\ settings.locked_user = "qa_locked"

\* ---- C8
\* C8 as claimed: every UserCredentials record the generator produced has a
\* user_type among standard, locked, problem, performance, error, visual.
C8_UserTypeEnumerated ==
    \A k \in DOMAIN produced.records :
        produced.records[k].user_type \in UserTypes

\* C8 as amended: a record of get_user_credentials carries the user_type it
\* was asked for, unchanged, so one of the six exactly when the input is;
\* the six records of generate_invalid_credentials carry the labels empty,
\* invalid, wrong_password, empty_username, empty_password, random.
C8_UserTypeAsGiven ==
    /\ produced.by = "get_user_credentials" =>
          /\ Len(produced.records) = 1
          /\ produced.records[1].user_type = produced.asked
          /\ (produced.records[1].user_type \in UserTypes
                <=> produced.asked \in UserTypes)
    /\ produced.by = "generate_invalid_credentials" =>
          [k \in DOMAIN produced.records |-> produced.records[k].user_type]
             = <<"empty", "invalid", "wrong_password", "empty_username",
                 "empty_password", "random">>

\* the generator returned a record for an identifier outside the six
C8_Witness ==
    /\ produced.by = "get_user_credentials"
    /\ produced.records[1].user_type = "admin"
    /\ produced.records[1].username = settings.standard_user

\* ---- C9
C9_Methods ==
    {"LoginPage.login", "CheckoutStepOnePage.fill_information",
     "InventoryPage.add_product_to_cart_by_name", "CartPage.remove_item_by_name",
     "CartPage.proceed_to_checkout", "CheckoutStepOnePage.click_continue",
     "CheckoutStepTwoPage.click_finish", "CheckoutStepOnePage.click_cancel",
     "CheckoutStepTwoPage.click_cancel", "CheckoutCompletePage.click_back_home"}

\* C9: when a driver call of one of the click/fill action methods times
\* out, the method ends with that TimeoutError: the timed-out call is the
\* last driver call the method makes, no selector is tried twice, and the
\* method returns normally only if every one of its driver calls succeeded.
C9_TimeoutPropagates ==
    last.method \in C9_Methods =>
        /\ last.raised \in {"none", "TimeoutError"}
        /\ Len(last.calls) <= last.steps
        /\ \A k \in DOMAIN last.calls :
              last.calls[k].raised # "none" =>
                  /\ k = Len(last.calls)
                  /\ last.raised = last.calls[k].raised
        /\ \A j, k \in DOMAIN last.calls :
              j < k => last.calls[j].selector # last.calls[k].selector
        /\ last.raised = "none" =>
              /\ Len(last.calls) = last.steps
              /\ \A k \in DOMAIN last.calls : last.calls[k].raised = "none"

\* login whose second fill timed out after the first one went through
C9_Witness ==
    /\ last.method = "LoginPage.login"
    /\ last.raised = "TimeoutError"
    /\ Len(last.calls) = 2
    /\ last.calls[2].raised = "TimeoutError"
    /\ app.form.username = DefaultSettings.standard_user
    /\ app.screen = "login"

\* ---- C10
C10_Methods ==
    {"InventoryPage.add_product_to_cart_by_index", "CartPage.remove_item_by_index"}

\* the call had no index-th matching button to act on
C10_TargetMissing == last.index >= last.count \/ last.index < 0 - last.count

\* C10 as stated: a by-index action whose target button is not on the page
\* ends with a timeout-class error.
C10_MissingTargetRaises ==
    (last.method \in C10_Methods /\ C10_TargetMissing) => last.raised = "TimeoutError"

C10_State ==
    last.method \in C10_Methods =>
        /\ last.index >= last.count => last.raised = "none" /\ last.calls = <<>>
        /\ last.index < 0 - last.count => last.raised = "IndexError" /\ last.calls = <<>>
        /\ last.raised = "TimeoutError" =>
              /\ ~C10_TargetMissing
              /\ Len(last.calls) = 1
              /\ last.calls[1].raised = "TimeoutError"

C10_Step ==
    (last'.method \in C10_Methods
        /\ (last'.index >= last'.count \/ last'.index < 0 - last'.count))
    => app' = app

\* C10: a by-index action whose index is at or past the number of matching
\* buttons returns normally, clicks nothing and leaves the page as it was;
\* an index below minus that number raises IndexError before any click; a
\* TimeoutError comes only from the click on a button that is there.
C10_MissingTargetNoOp == [](C10_State) /\ [][C10_Step]_vars

\* remove_item_by_index past the end of a non-empty cart list returned normally
C10_Witness ==
    /\ last.method = "CartPage.remove_item_by_index"
    /\ app.screen = "cart"
    /\ last.count > 0
    /\ last.count = Len(app.cart)
    /\ last.index >= last.count
    /\ last.raised = "none"
    /\ last.calls = <<>>

\* ---- C11
C11_Methods == {"BasePage.is_visible", "BasePage.is_hidden"}

C11_State ==
    last.method \in C11_Methods =>
        /\ last.raised = "none"
        /\ Len(last.calls) = 1
        /\ last.ret = <<last.calls[1].raised = "none">>
        /\ last.calls[1].op =
              (IF last.method = "BasePage.is_visible" THEN "wait_for_visible"
               ELSE "wait_for_hidden")

C11_Step == last'.method \in C11_Methods => app' = app

\* C11: is_visible and is_hidden never raise; each makes one wait for its
\* state and returns True exactly when that wait succeeded, False when it
\* timed out or failed otherwise, and the page is left as it was.
C11_ProbesNeverRaise == [](C11_State) /\ [][C11_Step]_vars

\* is_visible on an error banner that is not shown: the wait timed out and
\* the probe returned False
C11_Witness ==
    /\ last.method = "BasePage.is_visible"
    /\ last.calls[1].selector = ERROR_MESSAGE
    /\ last.calls[1].raised = "TimeoutError"
    /\ last.ret = <<FALSE>>
    /\ app.screen = "step_one"
    /\ app.error = ""

\* ---- C12
\* the screen each page object stands for
C12_ScreenOf ==
    [m \in {"LoginPage.is_loaded"} |-> "login"]
    @@ [m \in {"InventoryPage.is_loaded"} |-> "inventory"]
    @@ [m \in {"CartPage.is_loaded"} |-> "cart"]
    @@ [m \in {"CheckoutStepOnePage.is_loaded"} |-> "step_one"]
    @@ [m \in {"CheckoutStepTwoPage.is_loaded"} |-> "step_two"]
    @@ [m \in {"CheckoutCompletePage.is_loaded"} |-> "complete"]

\* is_loaded returned a boolean: True iff its screen is showing (and, for
\* the visibility check, the driver reported the element in time)
C12_Boolean ==
    /\ last.raised = "none"
    /\ last.ret \in {<<TRUE>>, <<FALSE>>}
    /\ app.screen # C12_ScreenOf[last.method] => last.ret = <<FALSE>>
    /\ (app.screen = C12_ScreenOf[last.method]
            /\ \A k \in DOMAIN last.calls : last.calls[k].raised = "none")
        => last.ret = <<TRUE>>

\* C12 as stated: is_loaded of each of the six page objects returns a
\* boolean and never raises.
C12_IsLoadedNeverRaises == last.method \in DOMAIN C12_ScreenOf => C12_Boolean

\* C12: is_loaded of the Inventory, Cart, CheckoutStepOne, CheckoutStepTwo
\* and CheckoutComplete page objects returns a boolean and never raises,
\* False on any other screen and True on its own; LoginPage has no
\* is_loaded, so that call ends with AttributeError.
C12_IsLoadedWhereDefined ==
    /\ last.method \in DOMAIN C12_ScreenOf \ {"LoginPage.is_loaded"} => C12_Boolean
    /\ last.method = "LoginPage.is_loaded" =>
          last.raised = "AttributeError" /\ last.ret = <<>>

\* InventoryPage.is_loaded said False on the cart screen after its wait timed out
C12_Witness ==
    /\ last.method = "InventoryPage.is_loaded"
    /\ app.screen = "cart"
    /\ last.calls[1].raised = "TimeoutError"
    /\ last.calls[1].timeout = 10000
    /\ last.raised = "none"
    /\ last.ret = <<FALSE>>

\* ---- C13
C13_Helpers ==
    {"BasePage.click", "BasePage.fill", "BasePage.get_text", "BasePage.get_attribute",
     "BasePage.is_visible", "BasePage.is_hidden", "BasePage.wait_for_selector",
     "BasePage.wait_for_url", "BasePage.hover"}

\* C13 as stated: each helper hands the driver the caller's timeout whenever
\* one is supplied, 0 included, and settings.timeout only when none is.
C13_CallerTimeoutUsed ==
    last.method \in C13_Helpers =>
        /\ Len(last.calls) = 1
        /\ last.calls[1].timeout =
              (IF last.timeout.some THEN last.timeout.v ELSE settings.timeout)

\* ---- C14
\* the prefix each operation puts before the slug
C14_Prefix ==
    [m \in {"InventoryPage.add_product_to_cart_by_name"} |-> "add-to-cart-"]
    @@ [m \in {"InventoryPage.remove_product_from_cart_by_name",
               "InventoryPage.is_product_in_cart",
               "CartPage.remove_item_by_name"} |-> "remove-"]

\* the name character by character: a space becomes a hyphen, an upper-case
\* letter its lower-case one, anything else stays
C14_Expected(name) ==
    [i \in 1..Len(name) |->
        CASE name[i] = " " -> "-"
          [] name[i] \in DOMAIN LowerOf -> LowerOf[name[i]]
          [] OTHER -> name[i]]

\* C14: each of the four operations addresses exactly one element, by
\* [data-test="<prefix><slug>"], where the prefix is add-to-cart- for the add
\* and remove- for the other three, and the slug is the name lowercased with
\* every space replaced by a hyphen; for a catalog name that is the
\* identifier the application gives the product's button.
C14_SameSlug ==
    last.method \in DOMAIN C14_Prefix =>
        /\ Len(last.calls) = 1
        /\ last.calls[1].selector =
              <<"[data-test=\"", C14_Prefix[last.method]>>
              \o C14_Expected(last.arg) \o <<"\"]">>
        /\ \A p \in DOMAIN ProductName :
              last.arg = ProductName[p] =>
                  last.calls[1].selector =
                      (IF C14_Prefix[last.method] = "remove-"
                       THEN RemoveButtons[p] ELSE AddButtons[p])

\* remove_item_by_name with a name holding capitals, dots, brackets and
\* spaces has addressed the remove button of that product
C14_Witness ==
    /\ last.method = "CartPage.remove_item_by_name"
    /\ last.arg = ProductName[6]
    /\ Len(last.calls) = 1
    /\ last.calls[1].selector = RemoveButtons[6]

\* ---- C15
\* the step is remove_product_from_cart_by_name(p) returning normally right
\* after add_product_to_cart_by_name(p) returned normally on the inventory
\* page with an empty cart, for a catalog product p
C15_RoundTrip(p) ==
    /\ last.method = "InventoryPage.add_product_to_cart_by_name"
    /\ last.arg = ProductName[p]
    /\ last.raised = "none"
    /\ app.screen = "inventory"
    /\ app.cart = <<p>>
    /\ last'.method = "InventoryPage.remove_product_from_cart_by_name"
    /\ last'.arg = ProductName[p]
    /\ last'.raised = "none"

C15_Step ==
    \A p \in Products :
        C15_RoundTrip(p) =>
            /\ app' = [app EXCEPT !.cart = <<>>]
            /\ \A drv \in WaitDrv, drv2 \in Drv :
                  /\ InventoryPage_is_cart_badge_visible(app', settings, drv).ret = <<FALSE>>
                  /\ InventoryPage_get_cart_item_count(app', settings, drv, drv2).ret = <<0>>
                  /\ InventoryPage_get_cart_item_count(app', settings, drv, drv2).raised = "none"
                  /\ InventoryPage_is_product_in_cart(app', settings, ProductName[p], drv).ret
                        = <<FALSE>>

\* C15: for every catalog product p and an empty cart, adding p by name and
\* then removing p by name leaves the inventory page with an empty cart:
\* is_cart_badge_visible is false, get_cart_item_count is 0 and
\* is_product_in_cart(p) is false.
C15_AddRemoveRoundTrip == [][C15_Step]_vars

\* the remove of the only product in the cart went through on the inventory page
C15_Witness ==
    /\ last.method = "InventoryPage.remove_product_from_cart_by_name"
    /\ last.arg = ProductName[1]
    /\ last.raised = "none"
    /\ last.calls[1].raised = "none"
    /\ app.screen = "inventory"
    /\ app.cart = <<>>

\* ---- C16
\* C16 as stated: add_all_products_to_cart on the inventory page with an
\* empty cart, when it returns normally, leaves every product of the
\* catalog in the cart, and the badge shows that number.
C16_AddAllAddsAll ==
    (/\ last.method = "InventoryPage.add_all_products_to_cart"
     /\ last.count = 0
     /\ last.raised = "none")
    => /\ Len(app.cart) = app.products
       /\ InventoryPage_get_cart_item_count(app, settings, "ok", "ok").ret = <<app.products>>

\* ---- C17
\* C17 as stated: add_product_to_cart_by_index(0), (1), ..., (k-1) on an
\* empty cart, with no driver timeout, leaves the badge showing k, for
\* every k from 1 to 5.
C17_BadgeShowsK ==
    (/\ last.method = "test_cart_badge_count_accuracy"
     /\ last.raised # "TimeoutError")
    => /\ last.raised = "none"
       /\ last.ret = <<last.index>>
       /\ Len(app.cart) = last.index

\* ---- C18
C18_CheckoutScreens == {"step_one", "step_two", "complete"}

\* the action a method call is: both click_cancel methods click the same
\* [data-test="cancel"] and either works on either step
C18_Action(method) ==
    CASE method = "CartPage.proceed_to_checkout" -> "proceed_to_checkout"
      [] method = "CheckoutStepOnePage.click_continue" -> "click_continue"
      [] method = "CheckoutStepTwoPage.click_finish" -> "click_finish"
      [] method \in {"CheckoutStepOnePage.click_cancel",
                     "CheckoutStepTwoPage.click_cancel"} -> "click_cancel"
      [] method = "CheckoutCompletePage.click_back_home" -> "click_back_home"
      [] OTHER -> "other"

\* from, to, and the action that makes the move
C18_Edges ==
    {<<"cart", "step_one", "proceed_to_checkout">>,
     <<"step_one", "step_two", "click_continue">>,
     <<"step_two", "complete", "click_finish">>,
     <<"step_one", "cart", "click_cancel">>,
     <<"step_two", "cart", "click_cancel">>,
     <<"complete", "inventory", "click_back_home">>}

C18_Step ==
    (app'.screen # app.screen
        /\ (app.screen \in C18_CheckoutScreens \/ app'.screen \in C18_CheckoutScreens))
    => /\ <<app.screen, app'.screen, C18_Action(last'.method)>> \in C18_Edges
       /\ last'.raised = "none"
       /\ app'.screen = "step_two" =>
             app.form.first # "" /\ app.form.last # "" /\ app.form.postal # ""

C19_Missing(form) ==
    CASE form.first = "" /\ form.last # "" /\ form.postal # "" -> "first"
      [] form.first # "" /\ form.last = "" /\ form.postal # "" -> "last"
      [] form.first # "" /\ form.last # "" /\ form.postal = "" -> "postal"
      [] OTHER -> "none"

C19_Message ==
    [first |-> "Error: First Name is required",
     last |-> "Error: Last Name is required",
     postal |-> "Error: Postal Code is required"]

C19_Step ==
    (/\ app.screen = "step_one"
     /\ C19_Missing(app.form) # "none"
     /\ last'.method = "CheckoutStepOnePage.click_continue"
     /\ last'.raised = "none")
    => /\ app'.screen = "step_one"
       /\ app'.form = app.form
       /\ CheckoutStepOnePage_is_error_displayed(app', settings, "ok").ret = <<TRUE>>
       /\ CheckoutStepOnePage_get_error_message(app', settings, "ok").ret
             = <<C19_Message[C19_Missing(app.form)]>>

\* C19: click_continue on step one with exactly one of first name, last name
\* and postal code empty leaves the flow on step one; is_error_displayed()
\* is then true and get_error_message() is the message that names the
\* missing field.
C19_MissingFieldKeepsStepOne == [][C19_Step]_vars

\* Continue was clicked with only the last name missing: still on step one,
\* with the error naming the last name
C19_Witness ==
    /\ last.method = "CheckoutStepOnePage.click_continue"
    /\ last.raised = "none"
    /\ app.screen = "step_one"
    /\ C19_Missing(app.form) = "last"
    /\ app.error = "Error: Last Name is required"

\* ---------------------------------------------------------------- C20
\* C20: verify_total_calculation() returns true exactly when the displayed
\* total equals the displayed subtotal plus the displayed tax (amounts in
\* whole cents), and it reads the three amounts from the page on each call.
C20_TrueIffEqual ==
    (/\ last.method = "CheckoutStepTwoPage.verify_total_calculation"
     /\ last.raised = "none")
    => /\ last.ret = <<app.summary.total = app.summary.subtotal + app.summary.tax>>
       /\ [i \in DOMAIN last.calls |-> last.calls[i].selector]
              = <<SUMMARY_SUBTOTAL, SUMMARY_TAX, SUMMARY_TOTAL>>

\* ---------------------------------------------------------------- C21
\* the elements of a list
C21_Set(list) == {list[k] : k \in DOMAIN list}

\* the page as it was before any sorting: the default order
C21_Before == [app EXCEPT !.sort = SORT_NAME_ASC]

C21_State ==
    /\ C21_Set(InventoryPage_get_all_product_names(app).ret[1])
           = C21_Set(InventoryPage_get_all_product_names(C21_Before).ret[1])
    /\ C21_Set(InventoryPage_get_all_product_prices(app).ret[1])
           = C21_Set(InventoryPage_get_all_product_prices(C21_Before).ret[1])
    /\ Cardinality(C21_Set(InventoryPage_get_all_product_names(app).ret[1])) = CatalogSize
    /\ Len(InventoryPage_get_all_product_prices(app).ret[1]) = CatalogSize
    /\ InventoryPage_get_product_count(app) = CatalogSize
    /\ last.method = "InventoryPage.get_all_product_names"
          => last.ret = InventoryPage_get_all_product_names(app).ret
    /\ last.method = "InventoryPage.get_all_product_prices"
          => last.ret = InventoryPage_get_all_product_prices(app).ret
    /\ last.method = "InventoryPage.get_product_count" => last.ret = <<CatalogSize>>

C21_Step ==
    /\ (/\ last'.method = "InventoryPage.sort_products"
        /\ last'.arg \in SortOptions
        /\ last'.raised = "none")
       => InventoryPage_get_current_sort_value(app', settings', "ok").ret = <<last'.arg>>
    /\ (last'.method = "InventoryPage.sort_products" /\ last'.raised # "none")
       => app' = app
    /\ last'.method # "InventoryPage.sort_products" => app' = app
    /\ (last'.method = "InventoryPage.get_current_sort_value" /\ last'.raised = "none")
       => last'.ret = <<app.sort>>

\* C21: after any sequence of sort_products calls with the modes az, za,
\* lohi, hilo, the sets of product names and of product prices read back
\* equal those read before sorting, the product count stays 6, and
\* get_current_sort_value() equals the mode of the last sort_products call
\* that returned.
C21_SortKeepsCatalog == []C21_State /\ [][C21_Step]_vars

C21_Witness ==
    /\ app.sort = SORT_PRICE_DESC
    /\ last.method = "InventoryPage.get_all_product_prices"
    /\ last.ret # InventoryPage_get_all_product_prices(C21_Before).ret
    /\ Len(last.ret[1]) = CatalogSize

\* ---------------------------------------------------------------- C22
\* the names and the prices, in cents, of the items the page lists now
C22_Names == [k \in DOMAIN Items(app) |-> ProductName[Items(app)[k]]]
C22_Cents == [k \in DOMAIN Items(app) |-> app.prices[Items(app)[k]]]

RECURSIVE C22_Sum(_)
C22_Sum(list) == IF list = <<>> THEN 0 ELSE Head(list) + C22_Sum(Tail(list))

\* the badge probe of the count methods got its answer: the badge is
\* absent, or the wait for it returned in time
C22_Probed == app.cart = <<>> \/ app.screen = "login" \/ last.calls[1].raised = "none"

\* C22: page objects cache no read value: the value a query method returned
\* is the state of the page at the time of that call, also after actions
\* that changed the page since an earlier call.
C22_QueriesAreFresh ==
    /\ last.method = "CartPage.get_cart_item_count"
          => last.ret = <<IF app.screen \in {"cart", "step_two"} THEN Len(app.cart) ELSE 0>>
    /\ last.method \in {"CartPage.get_all_item_names", "InventoryPage.get_all_product_names"}
          => last.ret = <<C22_Names>>
    /\ last.method = "InventoryPage.get_all_product_prices"
          => /\ Len(last.ret[1]) = Len(C22_Cents)
             /\ \A k \in DOMAIN C22_Cents : last.ret[1][k] = Double(C22_Cents[k])
    /\ last.method = "CartPage.get_total_price"
          => last.ret[1].cents = C22_Sum(C22_Cents)
    /\ (/\ last.method \in {"InventoryPage.get_cart_item_count",
                             "CartPage.get_cart_badge_count"}
        /\ last.raised = "none"
        /\ C22_Probed)
          => last.ret = <<Len(app.cart)>>

C22_Witness ==
    /\ last.method = "CartPage.get_cart_item_count"
    /\ app.screen = "cart"
    /\ last.ret = <<2>>
    /\ app.cart = <<2, 1>>

\* ---------------------------------------------------------------- C23
\* C23 as stated: when two tests run concurrently, each in its own
\* Context, every artifact write creates a file of its own: no write of one
\* test replaces an artifact another test wrote.
C23_NoArtifactReplaced ==
    \A i, j \in DOMAIN fs : (i < j /\ fs[i].path = fs[j].path) => fs[i].by = fs[j].by

\* ---- C24
\* Test-data generation is deterministic under the seed 42: runs of the
\* suite that have made the same sequence of generator calls hold the same
\* generator state and have obtained identical CheckoutData triples and
\* identical invalid-credential lists, call by call.
C24_SeededRunsAgree ==
    \A r1, r2 \in Runs :
        /\ runs[r1].out = runs[r2].out
        /\ runs[r1].faker = runs[r2].faker
        /\ runs[r1].faker.seed = FakerSeed

C24_Witness ==
    /\ \E k \in DOMAIN runs[1].out : runs[1].out[k].method = "generate_checkout_data"
    /\ \E k \in DOMAIN runs[1].out :
            runs[1].out[k].method = "generate_invalid_credentials"
    /\ runs[1].out = runs[NumRuns].out

\* ---- C25
\* A test body that uses logged_in_user starts only with the browser on the
\* inventory page; one that uses cart_with_items starts only on the cart
\* page with exactly the first two catalog products in the cart (count 2,
\* both names listed). When a helper fixture raises, the setup is reported
\* failed and the body never runs.
C25_FirstTwo == {ProductName[1], ProductName[2]}

C25_Start ==
    (pc = "setup" /\ pc' = "call") =>
        /\ helper = "logged_in_user" =>
              /\ app'.screen = "inventory"
              /\ InventoryPage_is_loaded(app', settings, "ok").ret = <<TRUE>>
        /\ helper = "cart_with_items" =>
              /\ CartPage_is_loaded(app').ret = <<TRUE>>
              /\ CartPage_get_cart_item_count(app').ret = <<2>>
              /\ C21_Set(CartPage_get_all_item_names(app').ret[1]) = C25_FirstTwo

C25_Failed ==
    rep.setup = "failed" => pc # "call" /\ rep.call = "absent"

C25_HelperPreconditions == []C25_Failed /\ [][C25_Start]_vars

C25_Witness ==
    /\ pc = "call"
    /\ helper = "cart_with_items"
    /\ last = NoLast
    /\ app.screen = "cart"
    /\ Len(app.cart) = 2

\* ---- C26
C26_Reads(drv, drv2) ==
    <<InventoryPage_get_cart_item_count(app, settings, drv, drv2),
      CartPage_get_cart_badge_count(app, settings, drv, drv2)>>

C26_Navigation == {"InventoryPage.click_shopping_cart", "CartPage.continue_shopping"}

\* C26 as stated: in every state reached by adding, removing and navigating
\* between inventory and cart, both badge reads return the number of
\* products in the cart and so does CartPage.get_cart_item_count().
C26_BadgeAlwaysMatchesCart ==
    /\ \A drv \in WaitDrv, drv2 \in Drv :
          \A k \in 1..2 : C26_Reads(drv, drv2)[k].ret = <<Len(app.cart)>>
    /\ CartPage_get_cart_item_count(app).ret = <<Len(app.cart)>>

C26_State ==
    /\ \A drv \in WaitDrv, drv2 \in Drv :
          \A k \in 1..2 :
              LET r == C26_Reads(drv, drv2)[k]
              IN
              /\ (drv = "ok" /\ drv2 = "ok") => r.raised = "none"
              /\ (drv = "ok" /\ r.raised = "none") => r.ret = <<Len(app.cart)>>
              /\ drv # "ok" => r.ret = <<0>>
    /\ (app.cart = <<>>) <=> (SHOPPING_CART_BADGE \notin Dom(app))
    /\ CartPage_get_cart_item_count(app).ret =
          <<IF app.screen = "cart" THEN Len(app.cart) ELSE 0>>
    /\ \A k, l \in DOMAIN app.cart : app.cart[k] = app.cart[l] => k = l

C26_Step == last'.method \in C26_Navigation => app'.cart = app.cart

\* C26, amended: in every such state the cart holds each product at most
\* once and the badge is absent exactly when it is empty; a badge read whose
\* 2000 ms probe the browser answers returns the number of products in the
\* cart, on the inventory and on the cart page, and one whose probe is not
\* answered returns 0 whatever the cart holds; CartPage.get_cart_item_count()
\* equals that number on the cart page and is 0 on the inventory page;
\* navigation alone never changes the cart.
C26_BadgeMatchesCart == []C26_State /\ [][C26_Step]_vars

C26_Witness ==
    /\ last.method = "CartPage.continue_shopping"
    /\ last.raised = "none"
    /\ app.screen = "inventory"
    /\ Len(app.cart) = 2
    /\ InventoryPage_get_cart_item_count(app, settings, "ok", "ok").ret = <<2>>

\* ---- C27
\* the loop runs on a page that shows the cart's remove buttons
C27_Own ==
    \/ last.method = "CartPage.remove_all_items" /\ app.screen = "cart"
    \/ /\ last.method = "InventoryPage.remove_all_products_from_cart"
       /\ app.screen \in {"inventory", "cart"}

C27_State ==
    C27_Own =>
        /\ last.steps <= last.count
        /\ Len(app.cart) = last.count - last.steps
        /\ (pc = "teardown" /\ last.raised = "none") =>
              /\ last.steps = last.count
              /\ app.cart = <<>>
              /\ All(app, REMOVE_BUTTON) = <<>>
              /\ SHOPPING_CART_BADGE \notin Dom(app)

C27_Step ==
    app' # app => /\ Len(app.cart) > 0
                  /\ Len(app'.cart) = Len(app.cart) - 1
                  /\ last'.steps = last.steps + 1

C28_PagesIn(c) == {p \in DOMAIN handles : handles[p].kind = "page" /\ handles[p].parent = c}

C28_Before(op, on, k) == \E j \in DOMAIN calls : j < k /\ calls[j].op = op /\ calls[j].on = on

\* C28: in every teardown the failure screenshot is taken on the test's
\* Page before page.close(); tracing.stop is called on the test's Context
\* after every Page of it was closed and before context.close(); and no
\* screenshot, tracing or close call is made on a Page or Context that is
\* already closed.
C28_TeardownOrder ==
    \A k \in DOMAIN calls :
        /\ calls[k].op \in {"screenshot", "tracing.start", "tracing.stop",
                            "page.close", "context.close"} => calls[k].live
        /\ calls[k].op = "screenshot" =>
              /\ ~C28_Before("page.close", calls[k].on, k)
              /\ PageTornDown => \E j \in DOMAIN calls :
                                    j > k /\ calls[j].op = "page.close"
                                          /\ calls[j].on = calls[k].on
        /\ calls[k].op = "tracing.stop" =>
              /\ \A p \in C28_PagesIn(calls[k].on) : C28_Before("page.close", p, k)
              /\ ~C28_Before("context.close", calls[k].on, k)
              /\ TestTornDown => \E j \in DOMAIN calls :
                                    j > k /\ calls[j].op = "context.close"
                                          /\ calls[j].on = calls[k].on

\* a failed test torn down with its screenshot taken and its trace stopped
C28_Witness ==
    /\ TestTornDown
    /\ \E k, l \in DOMAIN calls :
          /\ calls[k].op = "screenshot" /\ calls[k].ok
          /\ calls[l].op = "tracing.stop" /\ calls[l].ok
          /\ k < l
          /\ C28_PagesIn(calls[l].on) = {calls[k].on}

\* ---- C29
\* C29: the failure screenshot is attempted only for a test whose call
\* report exists and is failed, with screenshot_on_failure enabled: a test
\* that passed, a test whose setup failed before the body ran, and any test
\* with the flag disabled have no mkdir and no page.screenshot call, so no
\* failure_<name>.png is written for them.
C29_OnlyOnFailure ==
    /\ (HasCall("screenshot") \/ HasCall("mkdir")) =>
          /\ rep.call = "failed"
          /\ settings.screenshot_on_failure
    /\ (rep.call \in {"absent", "passed"} \/ ~settings.screenshot_on_failure) =>
          \A k \in DOMAIN calls :
              calls[k].path # "screenshots/failure_" \o NodeName(cur) \o ".png"

\* a test whose setup failed after its Page was created, torn down with the
\* flag enabled and without a capture
C29_Witness ==
    /\ PageTornDown
    /\ pc = "teardown"
    /\ rep.setup = "failed"
    /\ rep.call = "absent"
    /\ settings.screenshot_on_failure
    /\ \E k \in DOMAIN calls : calls[k].op = "page.close"
    /\ ~HasCall("screenshot")

\* ---- C30
C30_Kinds(hs) == [k \in DOMAIN hs |-> hs[k].kind]

C30_Unique ==
    \A logger \in loggers.created :
        \A k, l \in DOMAIN loggers.handlers[logger] :
            loggers.handlers[logger][k].kind = loggers.handlers[logger][l].kind => k = l

\* C30 as stated: every registered name maps to a logger that carries
\* exactly two handlers, a console and a file handler, never duplicated.
C30_RegisteredHaveTwoHandlers ==
    /\ \A name \in DOMAIN loggers.registry :
          C30_Kinds(loggers.handlers[loggers.registry[name]]) = <<"console", "file">>
    /\ C30_Unique

C30_State ==
    /\ \A name \in DOMAIN loggers.registry :
          /\ loggers.registry[name] = logging_getLogger(name)
          /\ loggers.registry[name] \in loggers.created
          /\ loggers.registry[name] # "root" =>
                loggers.handlers[loggers.registry[name]]
                    = <<console_handler, file_handler(name)>>
          /\ C30_Kinds(loggers.handlers[loggers.registry[name]])
                \in {<<"console", "file">>, <<"console">>}
    /\ C30_Unique

C30_Step ==
    /\ \A name \in DOMAIN loggers.registry :
          /\ name \in DOMAIN loggers'.registry
          /\ loggers'.registry[name] = loggers.registry[name]
    /\ loggers'.returned.name \in DOMAIN loggers.registry =>
          /\ loggers'.returned.logger = loggers.registry[loggers'.returned.name]
          /\ loggers'.handlers = loggers.handlers
          /\ loggers'.registry = loggers.registry
          /\ loggers'.created = loggers.created

\* C30, amended: a registered name keeps the one logger it was registered
\* with, a call for a registered name returns that logger and changes
\* neither the registry nor any handler, and no logger ever carries two
\* handlers of the same kind; every registered logger other than the root
\* logger carries exactly its console handler and the file handler of its
\* name; the root logger, which the names "" and "root" share, carries the
\* handlers of the last registration attempt under either name, the console
\* handler alone when that attempt raised.
C30_RegistryIdempotent == []C30_State /\ [][C30_Step]_vars

\* a name registered on a second attempt, after the first one raised
\* between the two addHandler calls, and then asked for again
C30_Witness ==
    /\ DOMAIN loggers.registry = {"LoginPage", "test_framework", "", "root"}
    /\ loggers.returned = [name |-> "LoginPage", logger |-> "LoginPage", raised |-> "none"]
    /\ "conftest" \in loggers.created
    /\ Len(loggers.handlers["conftest"]) = 1

====
